---- MODULE Spec2Model ----
(***************************************************************************)
(* A model of the marcel_os kernel runtime: the cooperative executor       *)
(* (src/src/task/executor.rs), the scancode stream and the keyboard        *)
(* interrupt (src/src/task/keyboard.rs, src/src/interrupts.rs), the shell  *)
(* task (src/src/cli.rs), the console writer lock                          *)
(* (src/src/vga_buffer.rs), the frame allocator (src/src/memory.rs),       *)
(* init_heap (src/src/allocator.rs) and the linked-list allocator          *)
(* (src/src/allocator/linked_list.rs).                                     *)
(*                                                                         *)
(* One CPU.  The main flow (boot, executor, the polled task) advances one  *)
(* step at a time; an interrupt handler runs to completion between two     *)
(* steps of the main flow whenever the interrupt flag is set, because the  *)
(* interrupt gate clears the flag on entry.  A handler that spins on a     *)
(* lock held by the code it interrupted never returns: hung.               *)
(***************************************************************************)
EXTENDS Integers, Sequences, FiniteSets, TLC

(***************************************************************************)
(* Bounds of the model.                                                    *)
(***************************************************************************)
\* Capacity of the scancode queue in the scaled kernel specification; the
\* flood specification uses the capacity of the source, SCANCODE_CAPACITY.
ScaledCap == 2
\* Capacity of the ready queue (ArrayQueue::new(100) in Executor::new), scaled.
ReadyCap == 2
\* Number of Task::new calls before Executor::run in the executor specification.
MaxTasks == 3
\* Number of scancodes of the flood scenario.
FloodSize == 200
\* Regions of a memory map and frame numbers of the frame-allocator
\* specification, and the allocate_frame calls made in it.
MaxRegions == 2
MaxFrameNo == 3
MaxAllocCalls == 4
\* Bytes of the heap handed to the linked-list allocator.
ListHeapSize == 64
\* Calls made on the console writer in the console specification.
MaxConsoleCalls == 2
\* Keys typed in the line-editing specification.
MaxKeys == 3
\* Breakpoint exceptions raised in the CPU specification.
MaxBreakpoints == 1

(***************************************************************************)
(* Program constants.                                                      *)
(***************************************************************************)
SCANCODE_CAPACITY == 100
CLI_ID == 0

VARIABLES
    pc,               \* position of the main flow (boot, executor loop)
    int_enabled,      \* the CPU interrupt flag (RFLAGS.IF)
    hung,             \* an interrupt handler spins on a lock forever
    WRITER,           \* vga_buffer::WRITER is locked by the main flow
    prt,              \* the main flow is inside _print: [active, saved]
    tasks,            \* Executor.tasks: the ids in the task table
    task_queue,       \* Executor.task_queue
    waker_cache,      \* Executor.waker_cache: the ids with a cached waker
    NEXT_ID,          \* TaskId::new's counter
    cur,              \* the id popped by the drain loop
    made,             \* tasks built by Task::new and not yet spawned
    SCANCODE_QUEUE,   \* keyboard::SCANCODE_QUEUE: [init, cap, items]
    WAKER,            \* keyboard::WAKER: the ids whose waker is registered
    cliPc,            \* position of the cli future
    buffer,           \* cli's line buffer
    key,              \* the scancode cli is handling
    script,           \* the scancodes the keyboard will send
    kbdPos,           \* how many of them the controller has raised
    flood,            \* the flood scenario: none, spawned, pending
    delivered,        \* history: scancodes returned by poll_next
    dropFull,         \* history: scancodes dropped on a full queue
    dropUninit,       \* history: scancodes dropped before the queue exists
    warnFull,         \* history: "scancode queue full" warnings printed
    warnUninit,       \* history: "scancode queue uninitialized" warnings printed
    eoi,              \* history: keyboard end-of-interrupts sent
    polls,            \* history: polls of each task, counted up to 2
    done,             \* history: tasks whose poll returned Ready
    created,          \* history: ids a TaskWaker was ever created for
    polledAfterReady, \* history: a task was polled after it returned Ready
    lastSkip,         \* history: the drain loop's last pop was of an absent id
    why,              \* history: what panicked: none, spawn, wake, stream, heap
    memory_map,       \* BootInfo.memory_map: regions [start, end, usable]
    next,             \* BootInfoFrameAllocator.next
    frames,           \* history: the results of allocate_frame, in call order
    page_table,       \* the leaf entries of the heap pages: [frame, flags]
    table_frames,     \* frames map_to took for intermediate page tables
    present_tables,   \* tables on the walk to the heap pages: <<level, number>>
    heap_page,        \* init_heap's position in page_range
    ALLOCATOR,        \* allocator::ALLOCATOR has been initialized
    head,             \* LinkedListAllocator: the free list after head
    live,             \* linked-list blocks handed out and not yet freed
    ret,              \* the result of the last allocator operation
    bump,             \* BumpAllocator: [heap_start, heap_end, next, allocations]
    list_heads,       \* FixedSizeBlockAllocator: the free blocks of each class
    writer,           \* the Writer behind vga_buffer::WRITER, with its cells
    console_op,       \* history: the last call on the writer, and their count
    port_out,         \* history: the words written to I/O ports, in order
    edit,             \* history: the keys of the line being typed, the lines parsed
    cpu,              \* the tables and controllers set up by init, and exceptions
    mem,              \* the bytes memmove works on, and what it returned
    heap_area         \* history: the range handed to LinkedListAllocator::init

vars == <<pc, int_enabled, hung, WRITER, prt, tasks, task_queue, waker_cache, NEXT_ID,
          cur, SCANCODE_QUEUE, WAKER, cliPc, buffer, key, script, kbdPos,
          flood, delivered, dropFull, dropUninit, warnFull, warnUninit, eoi,
          polls, done, created, polledAfterReady, lastSkip, made, why,
          memory_map, next, frames, page_table, table_frames, present_tables,
          heap_page, ALLOCATOR, head, live, ret, bump, list_heads, writer,
          console_op, port_out, edit, cpu, mem,
          heap_area>>

execVars == <<tasks, task_queue, waker_cache, NEXT_ID, cur, made>>
cliVars == <<cliPc, buffer, key>>
histVars == <<polls, done, created, polledAfterReady, lastSkip, why>>
frameVars == <<memory_map, next, frames>>
heapVars == <<page_table, table_frames, present_tables, heap_page, ALLOCATOR>>
listVars == <<head, live, ret>>
\* The state of the parts that are specified on their own.
consoleVars == <<writer, console_op, port_out>>
lateVars == <<edit, cpu, mem, heap_area>>
extraVars == <<bump, list_heads, consoleVars, lateVars>>
\* What the actions of one such part leave alone of the others.
besideBump == <<list_heads, consoleVars, lateVars>>
besideBlocks == <<bump, consoleVars, lateVars>>
besideConsole == <<bump, list_heads, lateVars>>
memVars == <<frameVars, heapVars, listVars, extraVars>>
\* The keyboard's state, and with it the boot-time memory state, which
\* nothing after init_heap touches.
kbdVars == <<SCANCODE_QUEUE, WAKER, script, memVars, kbdPos, flood, delivered,
             dropFull, dropUninit, warnFull, warnUninit, eoi>>
Ids == 0..MaxTasks

cpuVars == <<int_enabled, hung, WRITER, prt>>

\* Everything of the running kernel but pc, why and the memory state.
kernelVars == <<cpuVars, execVars, cliVars, SCANCODE_QUEUE, WAKER, script,
                kbdPos, flood, delivered, dropFull, dropUninit, warnFull,
                warnUninit, eoi, polls, done, created, polledAfterReady,
                lastSkip>>

Min(a, b) == IF a < b THEN a ELSE b

(***************************************************************************)
(* crossbeam ArrayQueue: a bounded FIFO; push fails when it is full.       *)
(***************************************************************************)
ArrayQueueNew(capacity) == [init |-> TRUE, cap |-> capacity, items |-> <<>>]

Uninit == [init |-> FALSE, cap |-> 0, items |-> <<>>]

Push(q, capacity, x) ==
    IF Len(q) >= capacity THEN [ok |-> FALSE, q |-> q]
    ELSE [ok |-> TRUE, q |-> Append(q, x)]

(***************************************************************************)
(* The keyboard's input.  A scancode is identified by its position in the  *)
(* script; its byte is script[position].                                   *)
(*   "clear" Enter                  : 46 38 18 30 19 28                    *)
(*   "a" Backspace Backspace F1 "a"-release Enter : 30 14 14 59 158 28     *)
(***************************************************************************)
Scripts == { <<46, 38, 18, 30, 19, 28>>, <<30, 14, 14, 59, 158, 28>> }

FloodPattern == <<30, 14, 158, 59, 46, 38, 18, 30, 19, 28>>

FloodScript ==
    [i \in 1..FloodSize |-> FloodPattern[((i - 1) % Len(FloodPattern)) + 1]]

\* keyboard.add_byte and keyboard.process_keyevent (scancode set 1, US layout,
\* no modifier held): the decoded key of a scancode byte.
Decode(b) ==
    CASE b = 28 -> [kind |-> "unicode", ch |-> 10]
      [] b = 14 -> [kind |-> "unicode", ch |-> 8]
      [] b = 30 -> [kind |-> "unicode", ch |-> 97]
      [] b = 46 -> [kind |-> "unicode", ch |-> 99]
      [] b = 38 -> [kind |-> "unicode", ch |-> 108]
      [] b = 18 -> [kind |-> "unicode", ch |-> 101]
      [] b = 19 -> [kind |-> "unicode", ch |-> 114]
      [] b = 59 -> [kind |-> "raw", ch |-> 0]
      [] OTHER -> [kind |-> "none", ch |-> 0]

\* str::trim on the code points the scripts can type.
IsSpace(c) == c \in {9, 10, 11, 12, 13, 32}

RECURSIVE TrimStart(_)
TrimStart(s) ==
    IF s # <<>> /\ IsSpace(Head(s)) THEN TrimStart(Tail(s)) ELSE s

RECURSIVE TrimEnd(_)
TrimEnd(s) ==
    IF s # <<>> /\ IsSpace(s[Len(s)]) THEN TrimEnd(SubSeq(s, 1, Len(s) - 1))
    ELSE s

Trim(s) == TrimEnd(TrimStart(s))

\* The arm of parse's match that a line selects.
ParseCmd(line) ==
    LET t == Trim(line) IN
    CASE t = <<104, 101, 108, 112>> -> "help"
      [] t = <<104, 101, 108, 108, 111>> -> "hello"
      [] t = <<99, 108, 101, 97, 114>> -> "clear"
      [] t = <<115, 104, 117, 116, 100, 111, 119, 110>> -> "shutdown"
      [] t = <<>> -> "empty"
      [] OTHER -> "unknown"

(***************************************************************************)
(* The flood scenario: the main flow makes no step while the keyboard      *)
(* raises the whole script, either right after kmain spawned the shell     *)
(* task (before its first poll) or right after the shell's first poll      *)
(* returned Pending.  Outside the scenario the keyboard may interrupt      *)
(* wherever interrupts are enabled.                                        *)
(***************************************************************************)
FloodPoint ==
    /\ pc = "drain"
    /\ IF flood = "spawned" THEN polls[CLI_ID] = 0
       ELSE cliPc = "pop1" /\ polls[CLI_ID] = 1

Frozen == flood # "none" /\ FloodPoint /\ kbdPos < Len(script)

MainMayStep == ~hung /\ ~Frozen

KbdMayFire ==
    /\ int_enabled
    /\ ~hung
    /\ pc # "panic"
    /\ kbdPos < Len(script)
    /\ flood # "none" => Frozen

\* The capacity ScancodeStream::new gives the queue.
ScancodeCapacity == IF flood = "none" THEN ScaledCap ELSE SCANCODE_CAPACITY

(***************************************************************************)
(* _print: interrupts::without_interrupts(|| WRITER.lock().write_fmt(..)). *)
(* The main flow holds the lock with interrupts disabled until PrintEnd    *)
(* releases it and restores the saved flag.                                *)
(***************************************************************************)
BeginPrint ==
    /\ prt' = [active |-> TRUE, saved |-> int_enabled]
    /\ int_enabled' = FALSE
    /\ WRITER' = TRUE
    /\ hung' = hung

PrintEnd ==
    /\ MainMayStep
    /\ prt.active
    /\ prt' = [active |-> FALSE, saved |-> FALSE]
    /\ int_enabled' = prt.saved
    /\ WRITER' = FALSE
    /\ UNCHANGED <<pc, hung, execVars, kbdVars, cliVars, histVars>>

(***************************************************************************)
(* Executor (task/executor.rs).                                            *)
(***************************************************************************)
\* Mutant of wake_task: a full queue evicts its oldest id (force_push)
\* instead of panicking.
wake_taskForcePush(q, id) ==
    [panic |-> FALSE,
     queue |-> IF Len(q) >= ReadyCap THEN Append(Tail(q), id)
               ELSE Append(q, id)]

\* TaskWaker::wake_task: push the id; expect("task_queue full").
wake_task(q, id) ==
    LET r == Push(q, ReadyCap, id) IN [panic |-> ~r.ok, queue |-> r.q]

\* Mutant of spawn: the result of the push is ignored.
spawnIgnoresFullQueue(ts, q, id) ==
    IF id \in ts THEN [panic |-> TRUE, tasks |-> ts, queue |-> q]
    ELSE [panic |-> FALSE, tasks |-> ts \cup {id},
          queue |-> Push(q, ReadyCap, id).q]

\* Executor::spawn on a table ts and a ready queue q.
spawn(ts, q, id) ==
    IF id \in ts THEN [panic |-> TRUE, tasks |-> ts, queue |-> q]
    ELSE LET r == Push(q, ReadyCap, id) IN
         [panic |-> ~r.ok, tasks |-> ts \cup {id}, queue |-> r.q]

\* Mutant of PollResult: Ready leaves the task in the table.
PollResultKeepsTask(ready) ==
    /\ pc' = "drain"
    /\ waker_cache' = IF ready THEN waker_cache \ {cur} ELSE waker_cache
    /\ done' = IF ready THEN done \cup {cur} ELSE done
    /\ UNCHANGED <<tasks, task_queue, NEXT_ID, cur, made>>

\* Mutant of PollResult: Ready leaves the cached waker behind.
PollResultKeepsWaker(ready) ==
    /\ pc' = "drain"
    /\ tasks' = IF ready THEN tasks \ {cur} ELSE tasks
    /\ done' = IF ready THEN done \cup {cur} ELSE done
    /\ UNCHANGED <<waker_cache, task_queue, NEXT_ID, cur, made>>

\* The result of a poll, as run_ready_tasks handles it.
PollResult(ready) ==
    /\ pc' = "drain"
    /\ tasks' = IF ready THEN tasks \ {cur} ELSE tasks
    /\ waker_cache' = IF ready THEN waker_cache \ {cur} ELSE waker_cache
    /\ done' = IF ready THEN done \cup {cur} ELSE done
    /\ UNCHANGED <<task_queue, NEXT_ID, cur, made>>

\* Mutant of ExecPop: the waker is created before the task is looked up.
ExecPopWakerFirst ==
    /\ MainMayStep
    /\ pc = "drain"
    /\ task_queue # <<>>
    /\ LET id == Head(task_queue) IN
       /\ task_queue' = Tail(task_queue)
       /\ waker_cache' = waker_cache \cup {id}
       /\ created' = created \cup {id}
       /\ IF id \in tasks
          THEN /\ cur' = id
               /\ pc' = "poll"
               /\ polls' = [polls EXCEPT ![id] = Min(2, @ + 1)]
               /\ polledAfterReady' = (polledAfterReady \/ id \in done)
               /\ lastSkip' = FALSE
          ELSE /\ lastSkip' = TRUE
               /\ UNCHANGED <<cur, pc, polls, polledAfterReady>>
    /\ UNCHANGED <<tasks, NEXT_ID, made, done, why, cpuVars, kbdVars, cliVars>>

\* Mutant of ExecPop: the drain loop takes the newest id of the queue.
ExecPopNewest ==
    /\ MainMayStep
    /\ pc = "drain"
    /\ task_queue # <<>>
    /\ LET id == task_queue[Len(task_queue)] IN
       /\ task_queue' = SubSeq(task_queue, 1, Len(task_queue) - 1)
       /\ IF id \in tasks
          THEN /\ waker_cache' = waker_cache \cup {id}
               /\ created' = created \cup {id}
               /\ cur' = id
               /\ pc' = "poll"
               /\ polls' = [polls EXCEPT ![id] = Min(2, @ + 1)]
               /\ polledAfterReady' = (polledAfterReady \/ id \in done)
               /\ lastSkip' = FALSE
          ELSE /\ lastSkip' = TRUE
               /\ UNCHANGED <<waker_cache, created, cur, pc, polls,
                              polledAfterReady>>
    /\ UNCHANGED <<tasks, NEXT_ID, made, done, why, cpuVars, kbdVars, cliVars>>

\* while let Some(task_id) = task_queue.pop(): look the task up, skip an
\* absent one, otherwise get or create its waker and poll.
ExecPop ==
    /\ MainMayStep
    /\ pc = "drain"
    /\ task_queue # <<>>
    /\ LET id == Head(task_queue) IN
       /\ task_queue' = Tail(task_queue)
       /\ IF id \in tasks
          THEN /\ waker_cache' = waker_cache \cup {id}
               /\ created' = created \cup {id}
               /\ cur' = id
               /\ pc' = "poll"
               /\ polls' = [polls EXCEPT ![id] = Min(2, @ + 1)]
               /\ polledAfterReady' = (polledAfterReady \/ id \in done)
               /\ lastSkip' = FALSE
          ELSE /\ lastSkip' = TRUE
               /\ UNCHANGED <<waker_cache, created, cur, pc, polls,
                              polledAfterReady>>
    /\ UNCHANGED <<tasks, NEXT_ID, made, done, why, cpuVars, kbdVars, cliVars>>

\* The drain loop ends on an empty queue; run calls sleep_if_idle.
ExecDrained ==
    /\ MainMayStep
    /\ pc = "drain"
    /\ task_queue = <<>>
    /\ pc' = "idle"
    /\ UNCHANGED <<execVars, cpuVars, kbdVars, cliVars, histVars>>

\* sleep_if_idle: the first is_empty check.
SleepCheck ==
    /\ MainMayStep
    /\ pc = "idle"
    /\ pc' = IF task_queue = <<>> THEN "sleep_disable" ELSE "drain"
    /\ UNCHANGED <<execVars, cpuVars, kbdVars, cliVars, histVars>>

\* interrupts::disable().
SleepDisable ==
    /\ MainMayStep
    /\ pc = "sleep_disable"
    /\ int_enabled' = FALSE
    /\ pc' = "sleep_recheck"
    /\ UNCHANGED <<hung, WRITER, prt, execVars, kbdVars, cliVars, histVars>>

\* Mutant of SleepRecheck: interrupts::enable() and hlt() as two steps.
SleepRecheckNaive ==
    /\ MainMayStep
    /\ \/ /\ pc = "sleep_recheck"
          /\ int_enabled' = TRUE
          /\ pc' = IF task_queue = <<>> THEN "sleep_hlt" ELSE "drain"
       \/ /\ pc = "sleep_hlt"
          /\ pc' = "halted"
          /\ UNCHANGED int_enabled
    /\ UNCHANGED <<hung, WRITER, prt, execVars, kbdVars, cliVars, histVars>>

\* The re-check: enable_and_hlt (sti; hlt, one interrupt window) on an empty
\* queue, interrupts::enable() otherwise.
SleepRecheck ==
    /\ MainMayStep
    /\ pc = "sleep_recheck"
    /\ int_enabled' = TRUE
    /\ pc' = IF task_queue = <<>> THEN "halted" ELSE "drain"
    /\ UNCHANGED <<hung, WRITER, prt, execVars, kbdVars, cliVars, histVars>>

\* A handler returns to the instruction after hlt: sleep_if_idle returns.
AfterIrq(p) == IF p = "halted" THEN "drain" ELSE p

(***************************************************************************)
(* Interrupts (interrupts.rs).                                             *)
(***************************************************************************)
\* timer_interrupt_handler: end-of-interrupt only.  It changes the state
\* only by ending a hlt.
TimerIrq ==
    /\ int_enabled
    /\ ~hung
    /\ pc = "halted"
    /\ pc' = "drain"
    /\ UNCHANGED <<execVars, cpuVars, kbdVars, cliVars, histVars>>

\* Mutant of add_scancode: a full queue drops the byte without a warning.
add_scancodeSilentDrop(b) ==
    LET q == SCANCODE_QUEUE
        same == [queue |-> q, waker |-> WAKER, ready |-> task_queue,
                 panic |-> FALSE, hung |-> FALSE, full |-> {}, uninit |-> {},
                 wfull |-> 0, wuninit |-> 0]
    IN
    IF ~q.init
    THEN IF WRITER THEN [same EXCEPT !.hung = TRUE, !.uninit = {b}]
         ELSE [same EXCEPT !.uninit = {b}, !.wuninit = 1]
    ELSE LET r == Push(q.items, q.cap, b) IN
         IF ~r.ok THEN [same EXCEPT !.full = {b}]
         ELSE IF WAKER = {} THEN [same EXCEPT !.queue.items = r.q]
         ELSE LET id == CHOOSE i \in WAKER : TRUE
                  w == wake_task(task_queue, id)
              IN [same EXCEPT !.queue.items = r.q, !.waker = {},
                              !.ready = w.queue, !.panic = w.panic]

\* add_scancode(b) in interrupt context.  println! spins on WRITER when the
\* interrupted code holds it.
add_scancode(b) ==
    LET q == SCANCODE_QUEUE
        same == [queue |-> q, waker |-> WAKER, ready |-> task_queue,
                 panic |-> FALSE, hung |-> FALSE, full |-> {}, uninit |-> {},
                 wfull |-> 0, wuninit |-> 0]
    IN
    IF ~q.init
    THEN IF WRITER THEN [same EXCEPT !.hung = TRUE, !.uninit = {b}]
         ELSE [same EXCEPT !.uninit = {b}, !.wuninit = 1]
    ELSE LET r == Push(q.items, q.cap, b) IN
         IF ~r.ok
         THEN IF WRITER THEN [same EXCEPT !.hung = TRUE, !.full = {b}]
              ELSE [same EXCEPT !.full = {b}, !.wfull = 1]
         ELSE \* WAKER.wake(): take the registered waker, if any, and wake it
              IF WAKER = {} THEN [same EXCEPT !.queue.items = r.q]
              ELSE LET id == CHOOSE i \in WAKER : TRUE
                       w == wake_task(task_queue, id)
                   IN [same EXCEPT !.queue.items = r.q, !.waker = {},
                                   !.ready = w.queue, !.panic = w.panic]

\* keyboard_interrupt_handler: read port 0x60, add_scancode, end-of-interrupt.
KeyboardIrq ==
    /\ KbdMayFire
    /\ LET b == kbdPos + 1
           r == add_scancode(b)
       IN /\ kbdPos' = b
          /\ SCANCODE_QUEUE' = r.queue
          /\ WAKER' = r.waker
          /\ task_queue' = r.ready
          /\ dropFull' = dropFull \cup r.full
          /\ dropUninit' = dropUninit \cup r.uninit
          /\ warnFull' = warnFull + r.wfull
          /\ warnUninit' = warnUninit + r.wuninit
          /\ hung' = r.hung
          /\ int_enabled' = (int_enabled /\ ~r.hung /\ ~r.panic)
          /\ eoi' = IF r.hung \/ r.panic THEN eoi ELSE eoi + 1
          /\ pc' = IF r.panic THEN "panic"
                   ELSE IF r.hung THEN pc ELSE AfterIrq(pc)
          /\ why' = IF r.panic THEN "wake" ELSE why
    /\ UNCHANGED <<WRITER, prt, tasks, waker_cache, NEXT_ID, cur, made,
                   script, memVars, flood, delivered, cliVars, polls, done, created,
                   polledAfterReady, lastSkip>>

(***************************************************************************)
(* The frame allocator (memory.rs) and init_heap (allocator.rs).           *)
(* A region of the bootloader's memory map is a range of frame numbers     *)
(* [start, end) with a type; start_addr() and end_addr() are the frame     *)
(* numbers times the frame size.  Heap pages are numbered from the page of *)
(* HEAP_START, which is a multiple of the page size.                       *)
(***************************************************************************)
PAGE_SIZE == 4096
HEAP_SIZE == 100 * 1024
\* The index of HEAP_START's page in its level-1 table (bits 12..20 of
\* 0x4444_4444_0000) and the number of entries of a page table.
HEAP_START_P1 == 64
ENTRY_COUNT == 512

None == [some |-> FALSE, frame |-> 0]
Some(f) == [some |-> TRUE, frame |-> f]

\* r.range.start_addr()..r.range.end_addr(), step_by(4096), each address
\* turned into its frame by PhysFrame::containing_address.
RangeFrames(r) ==
    LET s == r.start * PAGE_SIZE
        e == r.end * PAGE_SIZE
        n == IF e > s THEN (e - s + PAGE_SIZE - 1) \div PAGE_SIZE ELSE 0
    IN [i \in 1..n |-> (s + (i - 1) * PAGE_SIZE) \div PAGE_SIZE]

RECURSIVE usable_framesAllRegions(_)
\* Mutant of usable_frames: the filter on the region type is missing.
usable_framesAllRegions(map) ==
    IF map = <<>> THEN <<>>
    ELSE RangeFrames(Head(map)) \o usable_framesAllRegions(Tail(map))

RECURSIVE usable_frames(_)
\* BootInfoFrameAllocator::usable_frames: the frames of the Usable regions,
\* in map order.
usable_frames(map) ==
    IF map = <<>> THEN <<>>
    ELSE (IF Head(map).region_type = "Usable" THEN RangeFrames(Head(map))
          ELSE <<>>) \o usable_frames(Tail(map))

\* Mutant of allocate_frame: self.next is not advanced.
allocate_frameSameFrame(map, n) ==
    LET fs == usable_frames(map) IN
    [frame |-> IF n < Len(fs) THEN Some(fs[n + 1]) ELSE None, next |-> n]

\* allocate_frame: usable_frames().nth(self.next); self.next += 1.
allocate_frame(map, n) ==
    LET fs == usable_frames(map) IN
    [frame |-> IF n < Len(fs) THEN Some(fs[n + 1]) ELSE None, next |-> n + 1]

\* page_range of init_heap: the pages of HEAP_START .. HEAP_START+HEAP_SIZE-1.
HeapPages == 0 .. ((HEAP_SIZE - 1) \div PAGE_SIZE)

Unmapped == [present |-> FALSE, frame |-> 0, flags |-> {}]

\* The level-1 table of a heap page; the level-3 and level-2 tables are
\* shared by the whole range.
P1Table(page) == (HEAP_START_P1 + page) \div ENTRY_COUNT

\* Mapper::map_to(page, frame, flags, frame_allocator): create the missing
\* tables of the walk with frames of the allocator, then write the leaf
\* entry; FrameAllocationFailed or PageAlreadyMapped otherwise.
map_to(present, table, page, frame, flags, map, n) ==
    LET walk == << <<3, 0>>, <<2, 0>>, <<1, P1Table(page)>> >>
        need == SelectSeq(walk, LAMBDA t : t \notin present)
        got == [j \in 1..Len(need) |-> allocate_frame(map, n + j - 1).frame]
        fail == {j \in 1..Len(need) : ~got[j].some}
        calls == IF fail = {} THEN Len(need)
                 ELSE CHOOSE j \in fail : \A k \in fail : j <= k
        made_n == IF fail = {} THEN Len(need) ELSE calls - 1
        err == IF fail # {} THEN "FrameAllocationFailed"
               ELSE IF table[page].present THEN "PageAlreadyMapped"
               ELSE "ok"
    IN [err |-> err,
        present |-> present \cup {need[j] : j \in 1..made_n},
        taken |-> [j \in 1..made_n |-> got[j].frame],
        results |-> [j \in 1..calls |-> got[j]],
        next |-> n + calls,
        table |-> IF err = "ok"
                  THEN [table EXCEPT ![page] = [present |-> TRUE,
                                                frame |-> frame,
                                                flags |-> flags]]
                  ELSE table]

\* One allocate_frame call on its own.
AllocateFrame ==
    /\ pc = "frames"
    /\ Len(frames) < MaxAllocCalls
    /\ LET r == allocate_frame(memory_map, next) IN
       /\ frames' = Append(frames, r.frame)
       /\ next' = r.next
    /\ UNCHANGED <<pc, why, kernelVars, extraVars, memory_map, heapVars, listVars>>

\* Mutant of InitHeapPage: a failure skips the page and the loop goes on.
InitHeapPageSkipsFailure ==
    /\ MainMayStep
    /\ ~prt.active
    /\ pc = "init_done"
    /\ heap_page \in HeapPages
    /\ LET f == allocate_frame(memory_map, next)
           m == map_to(present_tables, page_table, heap_page, f.frame.frame,
                       {"PRESENT", "WRITABLE"}, memory_map, f.next)
       IN IF ~f.frame.some
          THEN /\ frames' = Append(frames, f.frame)
               /\ next' = f.next
               /\ UNCHANGED <<page_table, table_frames, present_tables>>
          ELSE /\ frames' = Append(frames, f.frame) \o m.results
               /\ next' = m.next
               /\ present_tables' = m.present
               /\ table_frames' = table_frames \o m.taken
               /\ page_table' = m.table
    /\ heap_page' = heap_page + 1
    /\ UNCHANGED <<pc, why, kernelVars, extraVars, memory_map, ALLOCATOR, listVars>>

\* One turn of init_heap's loop: a frame for the page, then map_to.  A
\* failure is returned to kmain, whose expect panics.
InitHeapPage ==
    /\ MainMayStep
    /\ ~prt.active
    /\ pc = "init_done"
    /\ heap_page \in HeapPages
    /\ LET f == allocate_frame(memory_map, next)
           m == map_to(present_tables, page_table, heap_page, f.frame.frame,
                       {"PRESENT", "WRITABLE"}, memory_map, f.next)
       IN IF ~f.frame.some
          THEN /\ frames' = Append(frames, f.frame)
               /\ next' = f.next
               /\ pc' = "panic"
               /\ why' = "heap"
               /\ UNCHANGED <<page_table, table_frames, present_tables,
                              heap_page>>
          ELSE /\ frames' = Append(frames, f.frame) \o m.results
               /\ next' = m.next
               /\ present_tables' = m.present
               /\ table_frames' = table_frames \o m.taken
               /\ page_table' = m.table
               /\ heap_page' = IF m.err = "ok" THEN heap_page + 1
                               ELSE heap_page
               /\ pc' = IF m.err = "ok" THEN pc ELSE "panic"
               /\ why' = IF m.err = "ok" THEN why ELSE "heap"
    /\ UNCHANGED <<kernelVars, extraVars, memory_map, ALLOCATOR, listVars>>

\* After the loop: ALLOCATOR.lock().init(HEAP_START, HEAP_SIZE); Ok(()).
InitHeapDone ==
    /\ MainMayStep
    /\ ~prt.active
    /\ pc = "init_done"
    /\ heap_page \notin HeapPages
    /\ ALLOCATOR' = TRUE
    /\ pc' = "heap_done"
    /\ UNCHANGED <<why, kernelVars, extraVars, frameVars, page_table, table_frames,
                   present_tables, heap_page, listVars>>

(***************************************************************************)
(* The linked-list allocator (allocator/linked_list.rs).  The free list is *)
(* the sequence of the nodes after head, each [addr, size]: the header     *)
(* written at the start of the free region it describes.                   *)
(***************************************************************************)
\* mem::size_of::<ListNode>() and mem::align_of::<ListNode>() on x86-64: a
\* usize and a nullable reference.
NODE_SIZE == 16
NODE_ALIGN == 8

\* allocator::align_up: (addr + align - 1) & !(align - 1); align is a power
\* of two, so the mask rounds down to a multiple of align.
align_up(addr, align) == ((addr + align - 1) \div align) * align

ListNode(addr, size) == [addr |-> addr, size |-> size]
start_addr(node) == node.addr
end_addr(node) == start_addr(node) + node.size

\* add_free_region: the two assertions, then the node is written at addr
\* and becomes the first of the list.
add_free_region(list, addr, size) ==
    IF align_up(addr, NODE_ALIGN) = addr /\ size >= NODE_SIZE
    THEN [panic |-> FALSE, list |-> <<ListNode(addr, size)>> \o list]
    ELSE [panic |-> TRUE, list |-> list]

\* Mutant of alloc_from_region: a tail shorter than a node is accepted.
alloc_from_regionAnyTail(region, size, align) ==
    LET alloc_start == align_up(start_addr(region), align)
        alloc_end == alloc_start + size
    IN [ok |-> alloc_end <= end_addr(region), start |-> alloc_start]

\* Mutant of alloc_from_region: the start of the region is not aligned up.
alloc_from_regionUnaligned(region, size, align) ==
    LET alloc_start == start_addr(region)
        alloc_end == alloc_start + size
        excess_size == end_addr(region) - alloc_end
    IN IF alloc_end > end_addr(region)
       THEN [ok |-> FALSE, start |-> alloc_start]
       ELSE IF excess_size > 0 /\ excess_size < NODE_SIZE
       THEN [ok |-> FALSE, start |-> alloc_start]
       ELSE [ok |-> TRUE, start |-> alloc_start]

\* alloc_from_region: Ok(alloc_start) or Err(()).
alloc_from_region(region, size, align) ==
    LET alloc_start == align_up(start_addr(region), align)
        alloc_end == alloc_start + size
        excess_size == end_addr(region) - alloc_end
    IN IF alloc_end > end_addr(region)
       THEN [ok |-> FALSE, start |-> alloc_start]
       ELSE IF excess_size > 0 /\ excess_size < NODE_SIZE
       THEN [ok |-> FALSE, start |-> alloc_start]
       ELSE [ok |-> TRUE, start |-> alloc_start]

RECURSIVE find_region(_, _, _)
\* find_region: walk the list from head; the first region alloc_from_region
\* accepts is unlinked and returned with its alloc_start.
find_region(list, size, align) ==
    IF list = <<>>
    THEN [found |-> FALSE, region |-> ListNode(0, 0), alloc_start |-> 0,
          list |-> <<>>]
    ELSE LET a == alloc_from_region(Head(list), size, align) IN
         IF a.ok
         THEN [found |-> TRUE, region |-> Head(list),
               alloc_start |-> a.start, list |-> Tail(list)]
         ELSE LET r == find_region(Tail(list), size, align) IN
              [r EXCEPT !.list = <<Head(list)>> \o r.list]

Max(a, b) == IF a > b THEN a ELSE b

\* Mutant of size_align: the size is not raised to the size of a node.
size_alignNoMinimum(layout) ==
    LET align == Max(layout.align, NODE_ALIGN) IN
    [size |-> align_up(layout.size, align), align |-> align]

\* size_align: align_to(align_of::<ListNode>()), pad_to_align(), and a size
\* of at least size_of::<ListNode>().
size_align(layout) ==
    LET align == Max(layout.align, NODE_ALIGN)
        padded == align_up(layout.size, align)
    IN [size |-> Max(padded, NODE_SIZE), align |-> align]

\* GlobalAlloc::alloc: the block and the list it leaves; a tail of the
\* region goes back on the list.
list_alloc(list, layout) ==
    LET sa == size_align(layout)
        f == find_region(list, sa.size, sa.align)
        alloc_end == f.alloc_start + sa.size
        excess_size == end_addr(f.region) - alloc_end
        back == add_free_region(f.list, alloc_end, excess_size)
    IN IF ~f.found THEN [ptr |-> None, list |-> list, panic |-> FALSE]
       ELSE IF excess_size > 0
       THEN [ptr |-> Some(f.alloc_start), list |-> back.list,
             panic |-> back.panic]
       ELSE [ptr |-> Some(f.alloc_start), list |-> f.list, panic |-> FALSE]

\* GlobalAlloc::dealloc.
list_dealloc(list, ptr, layout) ==
    add_free_region(list, ptr, size_align(layout).size)

\* The layouts of the callers and the heaps handed to init.
Layouts == [size : {8, 24, 40}, align : {8, 16}]

HeapStarts == {16, 24}

HeapSizes == {ListHeapSize - 16, ListHeapSize}

\* LinkedListAllocator::init(heap_start, heap_size).
ListInit(heap_start, heap_size) ==
    /\ pc = "list_new"
    /\ LET r == add_free_region(head, heap_start, heap_size) IN
       /\ head' = r.list
       /\ pc' = IF r.panic THEN "panic" ELSE "list"
       /\ why' = IF r.panic THEN "list" ELSE why
    /\ ret' = [op |-> "init", ptr |-> None]
    /\ heap_area' = [start |-> heap_start, size |-> heap_size]
    /\ UNCHANGED <<kernelVars, frameVars, heapVars, live, bump, list_heads,
                   consoleVars, edit, cpu, mem>>

\* alloc(layout) by some caller.
ListAlloc(layout) ==
    /\ pc = "list"
    /\ LET r == list_alloc(head, layout) IN
       /\ head' = r.list
       /\ live' = IF r.ptr.some
                  THEN live \cup {[ptr |-> r.ptr.frame, layout |-> layout]}
                  ELSE live
       /\ ret' = [op |-> "alloc", ptr |-> r.ptr]
       /\ pc' = IF r.panic THEN "panic" ELSE pc
       /\ why' = IF r.panic THEN "list" ELSE why
    /\ UNCHANGED <<kernelVars, extraVars, frameVars, heapVars>>

\* dealloc(ptr, layout) of a block alloc returned, with its layout.
ListDealloc(b) ==
    /\ pc = "list"
    /\ b \in live
    /\ LET r == list_dealloc(head, b.ptr, b.layout) IN
       /\ head' = r.list
       /\ live' = live \ {b}
       /\ ret' = [op |-> "dealloc", ptr |-> None]
       /\ pc' = IF r.panic THEN "panic" ELSE pc
       /\ why' = IF r.panic THEN "list" ELSE why
    /\ UNCHANGED <<kernelVars, extraVars, frameVars, heapVars>>

(***************************************************************************)
(* The bump allocator (allocator/bump.rs).                                 *)
(***************************************************************************)
\* BumpAllocator::new().
BumpNew == [init |-> FALSE, heap_start |-> 0, heap_end |-> 0, next |-> 0,
            allocations |-> 0]

\* BumpAllocator::init.
bump_init(b, heap_start, heap_size) ==
    [b EXCEPT !.init = TRUE, !.heap_start = heap_start,
              !.heap_end = heap_start + heap_size, !.next = heap_start]

\* Mutant of bump_alloc: next is advanced before the check against heap_end.
bump_allocAdvancesFirst(b, layout) ==
    LET alloc_start == align_up(b.next, layout.align)
        alloc_end == alloc_start + layout.size
    IN IF alloc_end > b.heap_end
       THEN [ptr |-> None, bump |-> [b EXCEPT !.next = alloc_end]]
       ELSE [ptr |-> Some(alloc_start),
             bump |-> [b EXCEPT !.next = alloc_end,
                                !.allocations = @ + 1]]

\* GlobalAlloc::alloc of the bump allocator.
bump_alloc(b, layout) ==
    LET alloc_start == align_up(b.next, layout.align)
        alloc_end == alloc_start + layout.size
    IN IF alloc_end > b.heap_end
       THEN [ptr |-> None, bump |-> b]
       ELSE [ptr |-> Some(alloc_start),
             bump |-> [b EXCEPT !.next = alloc_end,
                                !.allocations = @ + 1]]

\* Mutant of bump_dealloc: every dealloc rewinds next.
bump_deallocAlwaysResets(b) ==
    [b EXCEPT !.allocations = @ - 1, !.next = b.heap_start]

\* GlobalAlloc::dealloc of the bump allocator.
bump_dealloc(b) ==
    LET n == b.allocations - 1 IN
    [b EXCEPT !.allocations = n,
              !.next = IF n = 0 THEN b.heap_start ELSE @]

\* The layouts of the bump allocator's callers.
BumpLayouts == [size : {1, 8, 24}, align : {1, 8, 16}]

BumpInit(heap_start, heap_size) ==
    /\ pc = "bump_new"
    /\ bump' = bump_init(bump, heap_start, heap_size)
    /\ pc' = "bump"
    /\ ret' = [op |-> "init", ptr |-> None]
    /\ UNCHANGED <<why, kernelVars, frameVars, heapVars, head, live,
                   besideBump>>

BumpAlloc(layout) ==
    /\ pc = "bump"
    /\ LET r == bump_alloc(bump, layout) IN
       /\ bump' = r.bump
       /\ ret' = [op |-> "alloc", ptr |-> r.ptr]
    /\ UNCHANGED <<pc, why, kernelVars, frameVars, heapVars, head, live,
                   besideBump>>

\* dealloc of a block that is live.
BumpDealloc ==
    /\ pc = "bump"
    /\ bump.allocations > 0
    /\ bump' = bump_dealloc(bump)
    /\ ret' = [op |-> "dealloc", ptr |-> None]
    /\ UNCHANGED <<pc, why, kernelVars, frameVars, heapVars, head, live,
                   besideBump>>

(***************************************************************************)
(* The fixed-size block allocator, the kernel's global allocator           *)
(* (allocator.rs ALLOCATOR).  Its module is not among the sources; it is   *)
(* modelled from the specification: segregated free lists for the block    *)
(* sizes, each a stack of block addresses, and the linked-list allocator   *)
(* (head) as fallback, seeded with the whole heap.                         *)
(***************************************************************************)
BLOCK_SIZES == <<8, 16, 32, 64, 128, 256, 512, 1024, 2048>>

Classes == 1..Len(BLOCK_SIZES)

FixedSizeBlockNew == [i \in Classes |-> <<>>]

\* The class of a layout: the least class that holds max(size, align); 0
\* if none does.
list_index(layout) ==
    LET fit == {j \in Classes : BLOCK_SIZES[j] >= Max(layout.size, layout.align)}
    IN IF fit = {} THEN 0 ELSE CHOOSE j \in fit : \A k \in fit : j <= k

\* Allocation: pop the class's list, or ask the fallback for a block of the
\* class size aligned to the class size; without a class, ask the fallback
\* for the layout.
fsb_alloc(heads, fallback, layout) ==
    LET i == list_index(layout)
        size == IF i = 0 THEN 0 ELSE BLOCK_SIZES[i]
        f == list_alloc(fallback, IF i = 0 THEN layout
                                  ELSE [size |-> size, align |-> size])
    IN IF i # 0 /\ heads[i] # <<>>
       THEN [ptr |-> Some(Head(heads[i])),
             heads |-> [heads EXCEPT ![i] = Tail(@)],
             fallback |-> fallback, panic |-> FALSE]
       ELSE [ptr |-> f.ptr, heads |-> heads, fallback |-> f.list,
             panic |-> f.panic]

\* Mutant of fsb_dealloc: every block goes back to the fallback.
fsb_deallocToFallback(heads, fallback, ptr, layout) ==
    LET f == list_dealloc(fallback, ptr, layout) IN
    [heads |-> heads, fallback |-> f.list, panic |-> f.panic]

\* Deallocation: push the block on the list of its layout's class, or hand
\* it back to the fallback.
fsb_dealloc(heads, fallback, ptr, layout) ==
    LET i == list_index(layout)
        f == list_dealloc(fallback, ptr, layout)
    IN IF i # 0
       THEN [heads |-> [heads EXCEPT ![i] = <<ptr>> \o @],
             fallback |-> fallback, panic |-> FALSE]
       ELSE [heads |-> heads, fallback |-> f.list, panic |-> f.panic]

\* ALLOCATOR.lock().init(heap_start, heap_size): the fallback gets the heap.
BlocksInit(heap_start, heap_size) ==
    /\ pc = "blocks_new"
    /\ LET r == add_free_region(head, heap_start, heap_size) IN
       /\ head' = r.list
       /\ pc' = IF r.panic THEN "panic" ELSE "blocks"
       /\ why' = IF r.panic THEN "list" ELSE why
    /\ ret' = [op |-> "init", ptr |-> None]
    /\ UNCHANGED <<kernelVars, frameVars, heapVars, live, list_heads,
                   besideBlocks>>

BlocksAlloc(layout) ==
    /\ pc = "blocks"
    /\ LET r == fsb_alloc(list_heads, head, layout) IN
       /\ list_heads' = r.heads
       /\ head' = r.fallback
       /\ live' = IF r.ptr.some
                  THEN live \cup {[ptr |-> r.ptr.frame, layout |-> layout]}
                  ELSE live
       /\ ret' = [op |-> "alloc", ptr |-> r.ptr]
       /\ pc' = IF r.panic THEN "panic" ELSE pc
       /\ why' = IF r.panic THEN "list" ELSE why
    /\ UNCHANGED <<kernelVars, frameVars, heapVars, besideBlocks>>

\* dealloc(ptr, layout) of a live block with the layout of its alloc.
BlocksDealloc(b) ==
    /\ pc = "blocks"
    /\ b \in live
    /\ LET r == fsb_dealloc(list_heads, head, b.ptr, b.layout) IN
       /\ list_heads' = r.heads
       /\ head' = r.fallback
       /\ live' = live \ {b}
       /\ ret' = [op |-> "dealloc", ptr |-> None]
       /\ pc' = IF r.panic THEN "panic" ELSE pc
       /\ why' = IF r.panic THEN "list" ELSE why
    /\ UNCHANGED <<kernelVars, frameVars, heapVars, besideBlocks>>

(***************************************************************************)
(* The console (vga_buffer.rs): the Writer and the 80x25 cells of the VGA  *)
(* text buffer it writes.  crtc holds the low and the high byte that       *)
(* update_cursor last sent to the CRT controller; panic tells that a cell  *)
(* access was made outside chars' bounds.                                  *)
(***************************************************************************)
BUFFER_HEIGHT == 25
BUFFER_WIDTH == 80
Rows == 0..(BUFFER_HEIGHT - 1)
Cols == 0..(BUFFER_WIDTH - 1)
Black == 0
LightGray == 7
White == 15
NEWLINE == 10
SPACE == 32

\* ColorCode::new: (background << 4) | foreground, in a u8.
ColorCode_new(foreground, background) ==
    ((background * 16) % 256) + foreground

ScreenChar(byte, color_code) ==
    [ascii_character |-> byte, color_code |-> color_code]

WriterLazy == [lazy |-> TRUE]
NoEdit == [typed |-> <<>>, cells |-> <<>>, parsed |-> <<>>, prompts |-> 0]
CpuReset ==
    [gdt |-> FALSE, cs |-> FALSE, tss |-> FALSE, idt |-> FALSE,
     pics |-> FALSE, sti |-> FALSE, steps |-> <<>>, exception |-> "none",
     returned |-> 0, diagnostics |-> <<>>]
NoArea == [start |-> 0, size |-> 0]
NoMem ==
    [bytes |-> <<>>, before |-> <<>>, dest |-> 0, src |-> 0, num |-> 0,
     ret |-> 0, calls |-> 0]
NoCall == [calls |-> 0, op |-> "none", arg |-> <<>>]

InBuffer(row, col) == row \in Rows /\ col \in Cols

\* self.buffer.chars[row][col].write(c), which panics outside the bounds.
write_cell(w, row, col, c) ==
    IF InBuffer(row, col) THEN [w EXCEPT !.chars[row][col] = c]
    ELSE [w EXCEPT !.panic = TRUE]

update_cursor(w) ==
    LET pos == w.cursor_position[1] * BUFFER_WIDTH + w.cursor_position[2] IN
    [w EXCEPT !.crtc = <<pos % 256, (pos \div 256) % 256>>]

clear_row(w, row) ==
    [w EXCEPT !.chars[row] =
        [col \in Cols |-> ScreenChar(SPACE, w.color_code)]]

\* The loop of new_line from row on: each row is copied to the row above.
RECURSIVE copy_rows(_, _)
copy_rows(chars, row) ==
    IF row >= BUFFER_HEIGHT THEN chars
    ELSE copy_rows([chars EXCEPT ![row - 1] = chars[row]], row + 1)

new_lineNoScroll(w) ==
    [w EXCEPT !.cursor_position =
        <<IF @[1] >= BUFFER_HEIGHT - 1 THEN BUFFER_HEIGHT - 1 ELSE @[1] + 1,
          0>>]

new_lineKeepsColumn(w) ==
    IF w.cursor_position[1] >= BUFFER_HEIGHT - 1
    THEN LET up == [w EXCEPT !.chars = copy_rows(w.chars, 1)] IN
         [clear_row(up, BUFFER_HEIGHT - 1) EXCEPT
             !.cursor_position[1] = BUFFER_HEIGHT - 1]
    ELSE [w EXCEPT !.cursor_position[1] = @ + 1]

\* new_line: on the last row every row moves up by one and the last row is
\* blanked; otherwise the row advances.
new_line(w) ==
    LET moved ==
            IF w.cursor_position[1] >= BUFFER_HEIGHT - 1
            THEN LET up == [w EXCEPT !.chars = copy_rows(w.chars, 1)] IN
                 [clear_row(up, BUFFER_HEIGHT - 1) EXCEPT
                     !.cursor_position[1] = BUFFER_HEIGHT - 1]
            ELSE [w EXCEPT !.cursor_position[1] = @ + 1] IN
    [moved EXCEPT !.cursor_position[2] = 0]

write_byteNoWrap(w, byte) ==
    IF byte = NEWLINE THEN update_cursor(new_line(w))
    ELSE LET put == write_cell(w, w.cursor_position[1], w.cursor_position[2],
                               ScreenChar(byte, w.color_code)) IN
         IF put.panic THEN put
         ELSE update_cursor([put EXCEPT !.cursor_position[2] = @ + 1])

write_byte(w, byte) ==
    IF byte = NEWLINE THEN update_cursor(new_line(w))
    ELSE LET at == IF w.cursor_position[2] >= BUFFER_WIDTH THEN new_line(w)
                   ELSE w
             put == write_cell(at, at.cursor_position[1],
                               at.cursor_position[2],
                               ScreenChar(byte, at.color_code)) IN
         IF put.panic THEN put
         ELSE update_cursor([put EXCEPT !.cursor_position[2] = @ + 1])

Printable(byte) == (byte >= 32 /\ byte <= 126) \/ byte = NEWLINE

RECURSIVE write_stringRaw(_, _)
write_stringRaw(w, s) ==
    IF s = <<>> \/ w.panic THEN w
    ELSE write_stringRaw(write_byte(w, Head(s)), Tail(s))

\* write_string: the bytes of s in order, 0xfe for what the font lacks.
RECURSIVE write_string(_, _)
write_string(w, s) ==
    IF s = <<>> \/ w.panic THEN w
    ELSE write_string(
             write_byte(w, IF Printable(Head(s)) THEN Head(s) ELSE 254),
             Tail(s))

RECURSIVE clear_rows(_, _)
clear_rows(w, row) ==
    IF row >= BUFFER_HEIGHT THEN w ELSE clear_rows(clear_row(w, row), row + 1)

clear_screenKeepsCursor(w) == update_cursor(clear_rows(w, 0))

clear_screen(w) ==
    update_cursor([clear_rows(w, 0) EXCEPT !.cursor_position = <<0, 0>>])

move_cursor_backUnguarded(w) ==
    update_cursor([w EXCEPT !.cursor_position[2] = @ - 1])

move_cursor_back(w) ==
    IF w.cursor_position[2] > 0
    THEN update_cursor([w EXCEPT !.cursor_position[2] = @ - 1])
    ELSE w

Called(op, arg) ==
    [calls |-> console_op.calls + 1, op |-> op, arg |-> arg]

ConsoleCall(w, op, arg) ==
    /\ pc = "console"
    /\ console_op.calls < MaxConsoleCalls
    /\ writer' = w
    /\ console_op' = Called(op, arg)
    /\ pc' = IF w.panic THEN "panic" ELSE pc
    /\ why' = IF w.panic THEN "console" ELSE why
    /\ UNCHANGED <<kernelVars, frameVars, heapVars, listVars, besideConsole,
                   port_out>>

WriteByte(byte) == ConsoleCall(write_byte(writer, byte), "write_byte", <<byte>>)

WriteString(s) == ConsoleCall(write_string(writer, s), "write_string", s)

ClearScreen == ConsoleCall(clear_screen(writer), "clear_screen", <<>>)

MoveCursorBack ==
    ConsoleCall(move_cursor_back(writer), "move_cursor_back", <<>>)

(***************************************************************************)
(* The shell's command dispatch (cli.rs parse), on the console's cells.    *)
(***************************************************************************)
\* println!(s): write_str(s), then write_str("\n").
println(w, s) == write_string(write_string(w, s), <<NEWLINE>>)

RECURSIVE println_all(_, _)
println_all(w, lines) ==
    IF lines = <<>> THEN w ELSE println_all(println(w, Head(lines)), Tail(lines))

\* The five lines of the help arm.
HELP_LINES ==
    <<\* "Available commands:"
      <<65, 118, 97, 105, 108, 97, 98, 108, 101, 32, 99, 111, 109, 109, 97,
        110, 100, 115, 58>>,
      \* "  help     - Show this help menu"
      <<32, 32, 104, 101, 108, 112, 32, 32, 32, 32, 32, 45, 32, 83, 104, 111,
        119, 32, 116, 104, 105, 115, 32, 104, 101, 108, 112, 32, 109, 101,
        110, 117>>,
      \* "  hello    - Print 'Hello, World!'"
      <<32, 32, 104, 101, 108, 108, 111, 32, 32, 32, 32, 45, 32, 80, 114, 105,
        110, 116, 32, 39, 72, 101, 108, 108, 111, 44, 32, 87, 111, 114, 108,
        100, 33, 39>>,
      \* "  clear    - Clear the screen"
      <<32, 32, 99, 108, 101, 97, 114, 32, 32, 32, 32, 45, 32, 67, 108, 101,
        97, 114, 32, 116, 104, 101, 32, 115, 99, 114, 101, 101, 110>>,
      \* "  shutdown - Power off the system"
      <<32, 32, 115, 104, 117, 116, 100, 111, 119, 110, 32, 45, 32, 80, 111,
        119, 101, 114, 32, 111, 102, 102, 32, 116, 104, 101, 32, 115, 121,
        115, 116, 101, 109>>>>

\* "Hello, World!"
HELLO_LINE ==
    <<72, 101, 108, 108, 111, 44, 32, 87, 111, 114, 108, 100, 33>>

\* "Shutting down..."
SHUTDOWN_LINE ==
    <<83, 104, 117, 116, 116, 105, 110, 103, 32, 100, 111, 119, 110, 46, 46,
      46>>

\* "Unknown command. Type 'help' for a list of commands."
UNKNOWN_LINE ==
    <<85, 110, 107, 110, 111, 119, 110, 32, 99, 111, 109, 109, 97, 110, 100,
      46, 32, 84, 121, 112, 101, 32, 39, 104, 101, 108, 112, 39, 32, 102, 111,
      114, 32, 97, 32, 108, 105, 115, 116, 32, 111, 102, 32, 99, 111, 109,
      109, 97, 110, 100, 115, 46>>

\* port.write(0x2000u16) on Port::new(0x604).
SHUTDOWN_WRITE == [port |-> 1540, value |-> 8192 % 65536, bits |-> 16]

\* The arms of parse, selected by arm.
parse_arm(w, ports, arm) ==
    CASE arm = "help" -> [writer |-> println_all(w, HELP_LINES), port_out |-> ports]
      [] arm = "hello" -> [writer |-> println(w, HELLO_LINE), port_out |-> ports]
      [] arm = "clear" -> [writer |-> clear_screen(w), port_out |-> ports]
      [] arm = "shutdown" ->
            [writer |-> println(w, SHUTDOWN_LINE),
             port_out |-> Append(ports, SHUTDOWN_WRITE)]
      [] arm = "empty" -> [writer |-> w, port_out |-> ports]
      [] OTHER -> [writer |-> println(w, UNKNOWN_LINE), port_out |-> ports]

parseUntrimmed(w, ports, line) ==
    parse_arm(w, ports,
              IF line = Trim(line) THEN ParseCmd(line)
              ELSE IF line = <<>> THEN "empty" ELSE "unknown")

\* parse(buffer): match buffer.trim().
parse(w, ports, line) == parse_arm(w, ports, ParseCmd(line))

\* parse(&buffer) as cli calls it; the machine is off once QEMU has seen
\* the shutdown write.
ShellParse(line) ==
    /\ pc = "shell"
    /\ console_op.calls < MaxConsoleCalls
    /\ LET r == parse(writer, port_out, line) IN
       /\ writer' = r.writer
       /\ port_out' = r.port_out
       /\ pc' = IF r.writer.panic THEN "panic"
                ELSE IF r.port_out # port_out THEN "off" ELSE pc
       /\ why' = IF r.writer.panic THEN "console" ELSE why
    /\ console_op' = Called("parse", line)
    /\ UNCHANGED <<kernelVars, frameVars, heapVars, listVars, besideConsole>>

(***************************************************************************)
(* The shell's line editing (cli.rs cli), on the console's cells: the      *)
(* match on a decoded key, and the prompt at the top of the loop.          *)
(***************************************************************************)
Unicode(ch) == [kind |-> "unicode", ch |-> ch]
RawKey == [kind |-> "raw", ch |-> 0]

\* "> "
PROMPT == <<62, SPACE>>

cli_keyEraseOnEmpty(w, ports, buf, d) ==
    IF d.kind = "unicode" /\ d.ch \in {8, 127}
    THEN [writer |-> move_cursor_back(write_byte(move_cursor_back(w), SPACE)),
          port_out |-> ports,
          buffer |-> SubSeq(buf, 1, Len(buf) - 1),
          entered |-> FALSE]
    ELSE [writer |-> w, port_out |-> ports, buffer |-> buf, entered |-> FALSE]

\* The match on the decoded key: Enter echoes a newline, parses the buffer
\* and clears it; backspace and delete pop the buffer and rub out on the
\* console if the buffer is not empty; any other character is pushed and
\* echoed; a raw key is ignored.
cli_key(w, ports, buf, d) ==
    LET same == [writer |-> w, port_out |-> ports, buffer |-> buf,
                 entered |-> FALSE] IN
    IF d.kind # "unicode" THEN same
    ELSE IF d.ch = NEWLINE
    THEN LET r == parse(write_string(w, <<NEWLINE>>), ports, buf) IN
         [writer |-> r.writer, port_out |-> r.port_out, buffer |-> <<>>,
          entered |-> TRUE]
    ELSE IF d.ch \in {8, 127}
    THEN IF buf # <<>>
         THEN [same EXCEPT
                  !.buffer = SubSeq(buf, 1, Len(buf) - 1),
                  !.writer = move_cursor_back(
                                 write_byte(move_cursor_back(w), SPACE))]
         ELSE same
    ELSE [same EXCEPT !.buffer = Append(buf, d.ch),
                      !.writer = write_string(w, <<d.ch>>)]

\* Everything of the running kernel but the shell's own state.
besideCli ==
    <<cpuVars, execVars, SCANCODE_QUEUE, WAKER, script, kbdPos, flood,
      delivered, dropFull, dropUninit, warnFull, warnUninit, eoi, polls,
      done, created, polledAfterReady, lastSkip>>

\* Where the characters of the buffer are shown once key d is handled from
\* writer w to writer a: a scroll moves the cells up, an echoed character
\* is left of the cursor, a backspace forgets the last cell.
CellsAfter(cells, w, a, buf, d) ==
    IF d.kind = "unicode" /\ d.ch \notin {NEWLINE, 8, 127}
    THEN LET up == IF /\ w.cursor_position[2] >= BUFFER_WIDTH
                      /\ w.cursor_position[1] >= BUFFER_HEIGHT - 1
                   THEN [i \in 1..Len(cells) |->
                            <<cells[i][1] - 1, cells[i][2]>>]
                   ELSE cells IN
         Append(up, <<a.cursor_position[1], a.cursor_position[2] - 1>>)
    ELSE IF d.kind = "unicode" /\ d.ch \in {8, 127} /\ buf # <<>>
    THEN SubSeq(cells, 1, Len(cells) - 1)
    ELSE cells

\* One decoded key handled by the loop of cli; after Enter the loop breaks
\* to the prompt, unless the shutdown write has turned the machine off.
EditKey(d) ==
    /\ pc = "edit"
    /\ cliPc = "read"
    /\ console_op.calls < MaxKeys
    /\ LET r == cli_key(writer, port_out, buffer, d) IN
       /\ writer' = r.writer
       /\ port_out' = r.port_out
       /\ buffer' = r.buffer
       /\ cliPc' = IF r.entered THEN "prompt" ELSE cliPc
       /\ pc' = IF r.writer.panic THEN "panic"
                ELSE IF r.port_out # port_out THEN "off" ELSE pc
       /\ why' = IF r.writer.panic THEN "console" ELSE why
       /\ edit' = IF r.entered
                  THEN [edit EXCEPT
                           !.typed = <<>>,
                           !.cells = <<>>,
                           !.parsed = Append(@, [line |-> buffer,
                                                 keys |-> edit.typed])]
                  ELSE [edit EXCEPT
                           !.typed = Append(@, d),
                           !.cells = CellsAfter(@, writer, r.writer,
                                                buffer, d)]
    /\ console_op' = Called("key", <<d.ch>>)
    /\ UNCHANGED <<key, besideCli, frameVars, heapVars, listVars, bump,
                   list_heads, cpu, mem, heap_area>>

\* print!("> ") at the top of the loop.
EditPrompt ==
    /\ pc = "edit"
    /\ cliPc = "prompt"
    /\ LET w == write_string(writer, PROMPT) IN
       /\ writer' = w
       /\ pc' = IF w.panic THEN "panic" ELSE pc
       /\ why' = IF w.panic THEN "console" ELSE why
    /\ cliPc' = "read"
    /\ edit' = [edit EXCEPT !.prompts = @ + 1]
    /\ UNCHANGED <<buffer, key, console_op, port_out, besideCli, frameVars,
                   heapVars, listVars, bump, list_heads, cpu, mem, heap_area>>

(***************************************************************************)
(* lib.rs init in its steps (gdt.rs init, interrupts.rs init_idt, the      *)
(* PICs, interrupts::enable), and the CPU exception handlers               *)
(* (interrupts.rs).  Each step but the last is followed by its             *)
(* BootScreen::log line, a println!.                                       *)
(***************************************************************************)
INIT_STEPS == <<"gdt", "cs", "tss", "idt", "pics", "sti">>

InitStep(at, then, enable) ==
    /\ MainMayStep
    /\ ~prt.active
    /\ pc = at
    /\ pc' = then
    /\ cpu' = [cpu EXCEPT ![at] = TRUE, !.steps = Append(@, at)]
    /\ IF enable
       THEN /\ int_enabled' = TRUE
            /\ UNCHANGED <<hung, WRITER, prt>>
       ELSE BeginPrint
    /\ UNCHANGED <<execVars, cliVars, histVars, SCANCODE_QUEUE, WAKER, script,
                   frameVars, heapVars, listVars, bump, list_heads,
                   consoleVars, edit, mem, heap_area, kbdPos, flood, delivered, dropFull,
                   dropUninit, warnFull, warnUninit, eoi>>

GdtLoadEnables == InitStep("gdt", "cs", TRUE)

\* GDT.0.load().
GdtLoad == InitStep("gdt", "cs", FALSE)

\* CS::set_reg(GDT.1.code_selector).
CsSetReg == InitStep("cs", "tss", FALSE)

\* load_tss(GDT.1.tss_selector).
LoadTss == InitStep("tss", "idt", FALSE)

\* IDT.load().
IdtLoad == InitStep("idt", "pics", FALSE)

\* PICS.lock().initialize(): the PICs are remapped to vectors 32..47.
PicsInitialize == InitStep("pics", "sti", FALSE)

\* x86_64::instructions::interrupts::enable().
InterruptsEnable == InitStep("sti", "init_done", TRUE)

\* Where the main flow is after each handler: breakpoint_handler returns,
\* page_fault_handler ends in hlt_loop, double_fault_handler panics and the
\* panic handler ends in hlt_loop.
breakpoint_handler(p) == p

page_fault_handlerReturns(p) == p

page_fault_handler(p) == "fault"

double_fault_handler(p) == "panic"

\* An exception raised by the instruction the main flow is at, once the IDT
\* is loaded.  The handler is entered through an interrupt gate, which
\* clears the interrupt flag until the handler returns; its println! finds
\* WRITER free, because the code that holds WRITER touches only the writer
\* and the mapped cells.
Exception(kind, then) ==
    /\ MainMayStep
    /\ ~prt.active
    /\ ~WRITER
    /\ cpu.idt
    /\ pc \notin {"panic", "fault", "halted"}
    /\ pc' = then
    /\ int_enabled' = (int_enabled /\ kind = "breakpoint")
    /\ why' = IF then = "panic" THEN "double_fault" ELSE why
    /\ cpu' = IF kind = "breakpoint"
              THEN [cpu EXCEPT !.returned = @ + 1,
                               !.diagnostics = Append(@, kind)]
              ELSE [cpu EXCEPT !.exception = kind,
                               !.diagnostics = Append(@, kind)]
    /\ UNCHANGED <<hung, WRITER, prt, execVars, cliVars, polls, done, created,
                   polledAfterReady, lastSkip, SCANCODE_QUEUE, WAKER, script,
                   frameVars, heapVars, listVars, bump, list_heads,
                   consoleVars, edit, mem, heap_area, kbdPos, flood, delivered, dropFull,
                   dropUninit, warnFull, warnUninit, eoi>>

\* int3, as in test_breakpoint_exception.
Breakpoint ==
    /\ cpu.returned < MaxBreakpoints
    /\ Exception("breakpoint", breakpoint_handler(pc))

PageFault == Exception("page_fault", page_fault_handler(pc))

DoubleFault == Exception("double_fault", double_fault_handler(pc))

(***************************************************************************)
(* Boot (main.rs kmain, lib.rs init, boot_splash.rs).                      *)
(***************************************************************************)
\* marcel_os::init(): descriptor tables, PICs, then interrupts::enable().
BootInit ==
    /\ MainMayStep
    /\ pc = "kmain"
    /\ int_enabled' = TRUE
    /\ pc' = "init_done"
    /\ UNCHANGED <<hung, WRITER, prt, execVars, kbdVars, cliVars, histVars>>

\* The BootScreen::log lines of kmain (println!) up to BootScreen::show.
BootLog ==
    /\ MainMayStep
    /\ ~prt.active
    /\ pc = "heap_done"
    /\ BeginPrint
    /\ pc' = "show"
    /\ UNCHANGED <<execVars, kbdVars, cliVars, histVars>>

\* BootScreen::show: let mut writer = WRITER.lock().
BootShowLock ==
    /\ MainMayStep
    /\ ~prt.active
    /\ pc = "show"
    /\ WRITER' = TRUE
    /\ pc' = "show_locked"
    /\ UNCHANGED <<int_enabled, hung, prt, execVars, kbdVars, cliVars,
                   histVars>>

\* writer.clear_screen(); the guard is dropped at the end of the block.
BootShowClear ==
    /\ MainMayStep
    /\ pc = "show_locked"
    /\ WRITER' = FALSE
    /\ pc' = "show_print"
    /\ UNCHANGED <<int_enabled, hung, prt, execVars, kbdVars, cliVars,
                   histVars>>

\* The println! lines of the splash.
BootShowPrint ==
    /\ MainMayStep
    /\ pc = "show_print"
    /\ BeginPrint
    /\ pc' = "spawn"
    /\ UNCHANGED <<execVars, kbdVars, cliVars, histVars>>

\* Executor::new(); executor.spawn(Task::new(cli())); executor.run().
KmainSpawn ==
    /\ MainMayStep
    /\ ~prt.active
    /\ pc = "spawn"
    /\ LET r == spawn(tasks, task_queue, NEXT_ID) IN
       /\ NEXT_ID' = NEXT_ID + 1
       /\ tasks' = r.tasks
       /\ task_queue' = r.queue
       /\ pc' = IF r.panic THEN "panic" ELSE "drain"
       /\ why' = IF r.panic THEN "spawn" ELSE why
    /\ UNCHANGED <<waker_cache, cur, made, cpuVars, kbdVars, cliVars, polls,
                   done, created, polledAfterReady, lastSkip>>

(***************************************************************************)
(* The shell task (cli.rs) and ScancodeStream::poll_next (keyboard.rs).    *)
(***************************************************************************)
CliAt(p) ==
    /\ MainMayStep
    /\ ~prt.active
    /\ pc = "poll"
    /\ cur = CLI_ID
    /\ cliPc = p

\* Mutant of ScancodeStream_new: a second call replaces the queue.
ScancodeStream_newReinit(q, capacity) ==
    [panic |-> FALSE, queue |-> ArrayQueueNew(capacity)]

\* ScancodeStream::new(): SCANCODE_QUEUE.try_init_once(|| ArrayQueue::new(100))
\* .expect("ScancodeStream::new should only be called once").
ScancodeStream_new(q, capacity) ==
    IF q.init THEN [panic |-> TRUE, queue |-> q]
    ELSE [panic |-> FALSE, queue |-> ArrayQueueNew(capacity)]

\* The start of cli(): ScancodeStream::new(), then Keyboard::new and
\* String::new.
CliStart ==
    /\ CliAt("start")
    /\ LET r == ScancodeStream_new(SCANCODE_QUEUE, ScancodeCapacity) IN
       /\ SCANCODE_QUEUE' = r.queue
       /\ pc' = IF r.panic THEN "panic" ELSE pc
       /\ why' = IF r.panic THEN "stream" ELSE why
       /\ cliPc' = IF r.panic THEN cliPc ELSE "prompt"
    /\ UNCHANGED <<buffer, key, execVars, cpuVars, WAKER, script, memVars, kbdPos,
                   flood, delivered, dropFull, dropUninit, warnFull,
                   warnUninit, eoi, polls, done, created, polledAfterReady,
                   lastSkip>>

\* print!("> ").
CliPrompt ==
    /\ CliAt("prompt")
    /\ BeginPrint
    /\ cliPc' = "pop1"
    /\ UNCHANGED <<pc, buffer, key, execVars, kbdVars, histVars>>

\* Mutant of PollNextPop1: the scancode is returned and left in the queue.
PollNextPop1Peek ==
    /\ CliAt("pop1")
    /\ IF SCANCODE_QUEUE.items # <<>>
       THEN /\ key' = Head(SCANCODE_QUEUE.items)
            /\ delivered' = Append(delivered, Head(SCANCODE_QUEUE.items))
            /\ cliPc' = "key"
            /\ UNCHANGED SCANCODE_QUEUE
       ELSE /\ cliPc' = "register"
            /\ UNCHANGED <<key, SCANCODE_QUEUE, delivered>>
    /\ UNCHANGED <<pc, buffer, execVars, cpuVars, WAKER, script, memVars, kbdPos,
                   flood, dropFull, dropUninit, warnFull, warnUninit, eoi,
                   histVars>>

\* poll_next: the first queue.pop().
PollNextPop1 ==
    /\ CliAt("pop1")
    /\ IF SCANCODE_QUEUE.items # <<>>
       THEN /\ key' = Head(SCANCODE_QUEUE.items)
            /\ SCANCODE_QUEUE' =
                   [SCANCODE_QUEUE EXCEPT !.items = Tail(@)]
            /\ delivered' = Append(delivered, Head(SCANCODE_QUEUE.items))
            /\ cliPc' = "key"
       ELSE /\ cliPc' = "register"
            /\ UNCHANGED <<key, SCANCODE_QUEUE, delivered>>
    /\ UNCHANGED <<pc, buffer, execVars, cpuVars, WAKER, script, memVars, kbdPos,
                   flood, dropFull, dropUninit, warnFull, warnUninit, eoi,
                   histVars>>

\* poll_next: WAKER.register(cx.waker()).
PollNextRegister ==
    /\ CliAt("register")
    /\ WAKER' = {cur}
    /\ cliPc' = "pop2"
    /\ UNCHANGED <<pc, buffer, key, execVars, cpuVars, SCANCODE_QUEUE,
                   script, memVars, kbdPos, flood, delivered, dropFull, dropUninit,
                   warnFull, warnUninit, eoi, histVars>>

\* Mutant of PollNextPop2: Pending without the re-check.
PollNextPop2NoRecheck ==
    /\ CliAt("pop2")
    /\ cliPc' = "pop1"
    /\ PollResult(FALSE)
    /\ UNCHANGED <<key, SCANCODE_QUEUE, delivered, WAKER>>
    /\ UNCHANGED <<buffer, cpuVars, script, memVars, kbdPos, flood, dropFull,
                   dropUninit, warnFull, warnUninit, eoi, polls, created,
                   polledAfterReady, lastSkip, why>>

\* poll_next: the second queue.pop(): WAKER.take() and Ready on a scancode,
\* Pending otherwise.
PollNextPop2 ==
    /\ CliAt("pop2")
    /\ IF SCANCODE_QUEUE.items # <<>>
       THEN /\ key' = Head(SCANCODE_QUEUE.items)
            /\ SCANCODE_QUEUE' =
                   [SCANCODE_QUEUE EXCEPT !.items = Tail(@)]
            /\ delivered' = Append(delivered, Head(SCANCODE_QUEUE.items))
            /\ WAKER' = {}
            /\ cliPc' = "key"
            /\ UNCHANGED <<pc, execVars, done>>
       ELSE /\ cliPc' = "pop1"
            /\ PollResult(FALSE)
            /\ UNCHANGED <<key, SCANCODE_QUEUE, delivered, WAKER>>
    /\ UNCHANGED <<buffer, cpuVars, script, memVars, kbdPos, flood, dropFull,
                   dropUninit, warnFull, warnUninit, eoi, polls, created,
                   polledAfterReady, lastSkip, why>>

\* The match on the decoded key of the scancode.
CliKey ==
    /\ CliAt("key")
    /\ LET d == Decode(script[key]) IN
       IF d.kind # "unicode"
       THEN \* no key event, no decoded key, or a raw key
            /\ cliPc' = "pop1"
            /\ UNCHANGED <<buffer, cpuVars>>
       ELSE IF d.ch = 10
       THEN \* print!("\n"), then parse(&buffer)
            /\ BeginPrint
            /\ cliPc' = "parse"
            /\ UNCHANGED buffer
       ELSE IF d.ch \in {8, 127}
       THEN IF buffer # <<>>
            THEN \* buffer.pop(); let mut writer = WRITER.lock()
                 /\ buffer' = SubSeq(buffer, 1, Len(buffer) - 1)
                 /\ WRITER' = TRUE
                 /\ cliPc' = "bs_locked"
                 /\ UNCHANGED <<int_enabled, hung, prt>>
            ELSE /\ cliPc' = "pop1"
                 /\ UNCHANGED <<buffer, cpuVars>>
       ELSE \* buffer.push(character); print!("{}", character)
            /\ buffer' = Append(buffer, d.ch)
            /\ BeginPrint
            /\ cliPc' = "pop1"
    /\ UNCHANGED <<pc, key, execVars, kbdVars, histVars>>

\* move_cursor_back, write_byte(b' '), move_cursor_back; the guard is
\* dropped at the end of the block.
CliBackspaceDone ==
    /\ CliAt("bs_locked")
    /\ WRITER' = FALSE
    /\ cliPc' = "pop1"
    /\ UNCHANGED <<pc, int_enabled, hung, prt, buffer, key, execVars,
                   kbdVars, histVars>>

\* parse(&buffer): "clear" locks WRITER directly; the empty line prints
\* nothing; every other arm is println!.  Then buffer.clear() and break,
\* unless the writer is still held by the clear arm.
CliParse ==
    /\ CliAt("parse")
    /\ LET cmd == ParseCmd(buffer) IN
       IF cmd = "clear"
       THEN /\ WRITER' = TRUE
            /\ cliPc' = "clear_locked"
            /\ UNCHANGED <<int_enabled, hung, prt, buffer>>
       ELSE IF cmd = "empty"
       THEN /\ buffer' = <<>>
            /\ cliPc' = "prompt"
            /\ UNCHANGED cpuVars
       ELSE /\ BeginPrint
            /\ buffer' = <<>>
            /\ cliPc' = "prompt"
    /\ UNCHANGED <<pc, key, execVars, kbdVars, histVars>>

\* writer.clear_screen(); the guard is dropped at the end of the arm; then
\* buffer.clear() and break.
CliClearDone ==
    /\ CliAt("clear_locked")
    /\ WRITER' = FALSE
    /\ buffer' = <<>>
    /\ cliPc' = "prompt"
    /\ UNCHANGED <<pc, int_enabled, hung, prt, key, execVars, kbdVars,
                   histVars>>

(***************************************************************************)
(* The kernel specification.                                               *)
(***************************************************************************)
InitBesideCli ==
    /\ hung = FALSE
    /\ WRITER = FALSE
    /\ prt = [active |-> FALSE, saved |-> FALSE]
    /\ tasks = {}
    /\ task_queue = <<>>
    /\ waker_cache = {}
    /\ NEXT_ID = 0
    /\ cur = 0
    /\ SCANCODE_QUEUE = Uninit
    /\ WAKER = {}
    /\ key = 0
    /\ kbdPos = 0
    /\ delivered = <<>>
    /\ dropFull = {}
    /\ dropUninit = {}
    /\ warnFull = 0
    /\ warnUninit = 0
    /\ eoi = 0
    /\ polls = [i \in Ids |-> 0]
    /\ done = {}
    /\ created = {}
    /\ polledAfterReady = FALSE
    /\ lastSkip = FALSE
    /\ made = {}
    /\ why = "none"

InitCommon ==
    /\ InitBesideCli
    /\ cliPc = "start"
    /\ buffer = <<>>

\* The memory map the bootloader hands to the kernel specification: frames
\* in use below, free frames above.
BootMap == << [start |-> 0, end |-> 4, region_type |-> "Reserved"],
             [start |-> 4, end |-> 40, region_type |-> "Usable"] >>

\* BootInfoFrameAllocator::init and the page tables before init_heap: no
\* heap page is mapped.
InitHeapState ==
    /\ next = 0
    /\ frames = <<>>
    /\ page_table = [p \in HeapPages |-> Unmapped]
    /\ table_frames = <<>>
    /\ heap_page = 0
    /\ ALLOCATOR = FALSE

\* LinkedListAllocator::new().
InitListState ==
    /\ head = <<>>
    /\ live = {}
    /\ ret = [op |-> "none", ptr |-> None]

\* The parts specified on their own, before they are used.
InitExtra ==
    /\ bump = BumpNew
    /\ list_heads = FixedSizeBlockNew

InitBootMemory ==
    /\ InitExtra
    /\ memory_map = BootMap
    /\ present_tables = {}
    /\ InitHeapState
    /\ InitListState

\* The console's cells are specified on their own: elsewhere the writer is
\* the lazy static nobody has dereferenced, and only its lock is followed.
InitLateIdle ==
    /\ edit = NoEdit
    /\ cpu = CpuReset
    /\ mem = NoMem
    /\ heap_area = NoArea

InitConsoleIdle ==
    /\ writer = WriterLazy
    /\ console_op = NoCall
    /\ port_out = <<>>
    /\ InitLateIdle

InitMemory ==
    /\ InitBootMemory
    /\ InitConsoleIdle

Init ==
    /\ InitCommon
    /\ InitMemory
    /\ pc = "kmain"
    /\ int_enabled = FALSE
    /\ flood = "none"
    /\ script \in Scripts

Boot ==
    \/ BootInit
    \/ InitHeapPage
    \/ InitHeapDone
    \/ BootLog
    \/ BootShowLock
    \/ BootShowClear
    \/ BootShowPrint
    \/ KmainSpawn

Executor ==
    \/ ExecPop
    \/ ExecDrained
    \/ SleepCheck
    \/ SleepDisable
    \/ SleepRecheck

Cli ==
    \/ CliStart
    \/ CliPrompt
    \/ PollNextPop1
    \/ PollNextRegister
    \/ PollNextPop2
    \/ CliKey
    \/ CliBackspaceDone
    \/ CliParse
    \/ CliClearDone

Next ==
    \/ Boot
    \/ Executor
    \/ Cli
    \/ PrintEnd
    \/ KeyboardIrq
    \/ TimerIrq

Spec == Init /\ [][Next]_vars

(***************************************************************************)
(* The flood specification: the kernel with the queue capacity of the      *)
(* source and a keyboard that raises FloodSize scancodes while the main    *)
(* flow stands still at the flood point.                                   *)
(***************************************************************************)
InitFlood ==
    /\ InitCommon
    /\ InitMemory
    /\ pc = "kmain"
    /\ int_enabled = FALSE
    /\ flood \in {"spawned", "pending"}
    /\ script = FloodScript

SpecFlood == InitFlood /\ [][Next]_vars

(***************************************************************************)
(* The executor specification: any tasks.  Task::new builds tasks,         *)
(* Executor::spawn takes them in any order, then run starts.  A task's     *)
(* future is opaque: a poll may wake any waker that was ever created (its  *)
(* own, or a clone it was handed) and returns Ready or Pending; interrupt  *)
(* handlers may wake any such waker wherever interrupts are enabled, also  *)
(* after the task completed.                                               *)
(***************************************************************************)
\* Mutant of TaskNew: the counter is read but not advanced.
TaskNewSameId ==
    /\ pc = "exec_boot"
    /\ NEXT_ID < MaxTasks
    /\ Cardinality(made) + Cardinality(tasks) < MaxTasks
    /\ made' = made \cup {NEXT_ID}
    /\ UNCHANGED <<pc, NEXT_ID, tasks, task_queue, waker_cache, cur, cpuVars,
                   kbdVars, cliVars, histVars>>

\* Task::new: TaskId::new() is NEXT_ID.fetch_add(1).
TaskNew ==
    /\ pc = "exec_boot"
    /\ NEXT_ID < MaxTasks
    /\ made' = made \cup {NEXT_ID}
    /\ NEXT_ID' = NEXT_ID + 1
    /\ UNCHANGED <<pc, tasks, task_queue, waker_cache, cur, cpuVars, kbdVars,
                   cliVars, histVars>>

\* executor.spawn(task).
ExecSpawn(id) ==
    /\ pc = "exec_boot"
    /\ id \in made
    /\ LET r == spawn(tasks, task_queue, id) IN
       /\ made' = made \ {id}
       /\ tasks' = r.tasks
       /\ task_queue' = r.queue
       /\ pc' = IF r.panic THEN "panic" ELSE pc
       /\ why' = IF r.panic THEN "spawn" ELSE why
    /\ UNCHANGED <<waker_cache, NEXT_ID, cur, cpuVars, kbdVars, cliVars,
                   polls, done, created, polledAfterReady, lastSkip>>

\* executor.run().
ExecRun ==
    /\ pc = "exec_boot"
    /\ pc' = "drain"
    /\ UNCHANGED <<execVars, cpuVars, kbdVars, cliVars, histVars>>

\* A wake of task t's waker: Wake::wake and Wake::wake_by_ref both call
\* wake_task.
Wake(t) ==
    LET w == wake_task(task_queue, t) IN
    /\ task_queue' = w.queue
    /\ why' = IF w.panic THEN "wake" ELSE why
    /\ UNCHANGED <<tasks, waker_cache, NEXT_ID, cur, made, WRITER, prt, hung,
                   kbdVars, cliVars, polls, done, created, polledAfterReady,
                   lastSkip>>

\* The polled future wakes a waker.
TaskWake(t) ==
    /\ pc = "poll"
    /\ t \in created
    /\ Wake(t)
    /\ pc' = IF wake_task(task_queue, t).panic THEN "panic" ELSE pc
    /\ UNCHANGED int_enabled

\* An interrupt handler wakes a waker.
IrqWake(t) ==
    /\ int_enabled
    /\ pc \notin {"panic", "exec_boot"}
    /\ t \in created
    /\ Wake(t)
    /\ pc' = IF wake_task(task_queue, t).panic THEN "panic" ELSE AfterIrq(pc)
    /\ int_enabled' = ~wake_task(task_queue, t).panic

\* The polled future returns.
TaskReturns(ready) ==
    /\ pc = "poll"
    /\ PollResult(ready)
    /\ UNCHANGED <<cpuVars, kbdVars, cliVars, polls, created,
                   polledAfterReady, lastSkip, why>>

InitExec ==
    /\ InitCommon
    /\ InitMemory
    /\ pc = "exec_boot"
    /\ int_enabled = TRUE
    /\ flood = "none"
    /\ script = <<>>

NextExec ==
    \/ TaskNew
    \/ \E id \in Ids : ExecSpawn(id)
    \/ ExecRun
    \/ Executor
    \/ \E t \in Ids : TaskWake(t)
    \/ \E t \in Ids : IrqWake(t)
    \/ \E r \in BOOLEAN : TaskReturns(r)
    \/ TimerIrq

SpecExec == InitExec /\ [][NextExec]_vars

(***************************************************************************)
(* The frame-allocator specification: allocate_frame called again and      *)
(* again on any memory map of up to MaxRegions regions over the frames     *)
(* 0..MaxFrameNo.                                                          *)
(***************************************************************************)
Regions ==
    [start : 0..MaxFrameNo, end : 0..MaxFrameNo,
     region_type : {"Usable", "Reserved"}]

MemoryMaps == UNION { [1..n -> Regions] : n \in 0..MaxRegions }

InitFrames ==
    /\ InitCommon
    /\ InitExtra
    /\ InitConsoleIdle
    /\ InitHeapState
    /\ InitListState
    /\ memory_map \in MemoryMaps
    /\ present_tables = {}
    /\ pc = "frames"
    /\ int_enabled = FALSE
    /\ flood = "none"
    /\ script = <<>>

NextFrames == AllocateFrame

SpecFrames == InitFrames /\ [][NextFrames]_vars

(***************************************************************************)
(* The heap specification: the kernel booted on memory maps with too few,  *)
(* just enough and more than enough usable frames, with any of the         *)
(* intermediate tables of the heap range already present.                  *)
(***************************************************************************)
HeapRegionFrames == {0, 3, 25}

HeapMaps ==
    { << [start |-> 0, end |-> a, region_type |-> t1],
         [start |-> a, end |-> a + b, region_type |-> t2] >> :
      a \in HeapRegionFrames, b \in HeapRegionFrames,
      t1 \in {"Usable", "Reserved"}, t2 \in {"Usable", "Reserved"} }

InitHeap ==
    /\ InitCommon
    /\ InitExtra
    /\ InitConsoleIdle
    /\ InitHeapState
    /\ InitListState
    /\ memory_map \in HeapMaps
    /\ present_tables \in {{}, {<<3, 0>>}, {<<3, 0>>, <<2, 0>>},
                          {<<3, 0>>, <<2, 0>>, <<1, 0>>}}
    /\ pc = "kmain"
    /\ int_enabled = FALSE
    /\ flood = "none"
    /\ script \in Scripts

SpecHeap == InitHeap /\ [][Next]_vars

(***************************************************************************)
(* The linked-list specification: init on a heap, then any allocs and any  *)
(* deallocs of blocks that are live, each with the layout of its alloc.    *)
(***************************************************************************)
Blocks ==
    [ptr : 0 .. (24 + ListHeapSize), layout : Layouts]

InitList ==
    /\ InitCommon
    /\ InitMemory
    /\ pc = "list_new"
    /\ int_enabled = FALSE
    /\ flood = "none"
    /\ script = <<>>

NextList ==
    \/ \E a \in HeapStarts : \E n \in HeapSizes : ListInit(a, n)
    \/ \E l \in Layouts : ListAlloc(l)
    \/ \E b \in Blocks : ListDealloc(b)

SpecList == InitList /\ [][NextList]_vars

(***************************************************************************)
(* The bump specification, and the specification of a heap served by       *)
(* either of the two allocators.                                           *)
(***************************************************************************)
InitBump ==
    /\ InitCommon
    /\ InitMemory
    /\ pc = "bump_new"
    /\ int_enabled = FALSE
    /\ flood = "none"
    /\ script = <<>>

NextBump ==
    \/ \E a \in HeapStarts : \E n \in HeapSizes : BumpInit(a, n)
    \/ \E l \in BumpLayouts : BumpAlloc(l)
    \/ BumpDealloc

SpecBump == InitBump /\ [][NextBump]_vars

InitAllocators ==
    /\ InitCommon
    /\ InitMemory
    /\ pc \in {"list_new", "bump_new"}
    /\ int_enabled = FALSE
    /\ flood = "none"
    /\ script = <<>>

NextAllocators == NextList \/ NextBump

SpecAllocators == InitAllocators /\ [][NextAllocators]_vars

(***************************************************************************)
(* The fixed-size block specification.                                     *)
(***************************************************************************)
InitBlocks ==
    /\ InitCommon
    /\ InitMemory
    /\ pc = "blocks_new"
    /\ int_enabled = FALSE
    /\ flood = "none"
    /\ script = <<>>

NextBlocks ==
    \/ \E a \in HeapStarts : \E n \in HeapSizes : BlocksInit(a, n)
    \/ \E l \in Layouts : BlocksAlloc(l)
    \/ \E b \in Blocks : BlocksDealloc(b)

SpecBlocks == InitBlocks /\ [][NextBlocks]_vars

(***************************************************************************)
(* The console specification: the writer with its cursor on the first,     *)
(* the last but one or the last row and at the start, the end or past the  *)
(* end of the line, over the cells the firmware left or over a cleared     *)
(* screen; then any calls of its public methods.                           *)
(***************************************************************************)
\* What the firmware left on the screen: every row differs from the next
\* and every cell from its neighbour.
BootCells ==
    [row \in Rows |->
        [col \in Cols |->
            ScreenChar(65 + row + (IF col % 2 = 1 THEN 32 ELSE 0),
                       ColorCode_new(LightGray, Black))]]

BlankCells ==
    [row \in Rows |->
        [col \in Cols |-> ScreenChar(SPACE, ColorCode_new(White, Black))]]

WriterAt(row, col, chars) ==
    update_cursor([cursor_position |-> <<row, col>>,
                   color_code |-> ColorCode_new(White, Black),
                   chars |-> chars,
                   crtc |-> <<0, 0>>,
                   panic |-> FALSE])

ConsoleStarts ==
    {WriterAt(row, col, chars) :
        row \in {0, BUFFER_HEIGHT - 2, BUFFER_HEIGHT - 1},
        col \in {0, BUFFER_WIDTH - 1, BUFFER_WIDTH},
        chars \in {BootCells, BlankCells}}

\* A newline, a letter, and a byte write_string never passes on.
ConsoleBytes == {NEWLINE, 65, 128}

\* "", "A", "AB", "\nAB\n", "~ \x7f\x1f", and "\u{e9}\n" in UTF-8.
ConsoleStrings ==
    {<<>>, <<65>>, <<65, 66>>, <<NEWLINE, 65, 66, NEWLINE>>,
     <<126, 32, 127, 31>>, <<195, 169, NEWLINE>>}

InitConsole ==
    /\ InitCommon
    /\ InitBootMemory
    /\ pc = "console"
    /\ int_enabled = FALSE
    /\ flood = "none"
    /\ script = <<>>
    /\ writer \in ConsoleStarts
    /\ console_op = NoCall
    /\ port_out = <<>>
    /\ InitLateIdle

NextConsole ==
    \/ \E b \in ConsoleBytes : WriteByte(b)
    \/ \E s \in ConsoleStrings : WriteString(s)
    \/ ClearScreen
    \/ MoveCursorBack

SpecConsole == InitConsole /\ [][NextConsole]_vars

(***************************************************************************)
(* The shell specification: lines handed to parse, one after the other,    *)
(* from the console specification's starting states.                       *)
(***************************************************************************)
\* help, hello, clear, shutdown, "", "  hello \t", "\tclear\n", " ",
\* helo, HELP, help me.
ShellLines ==
    {<<104, 101, 108, 112>>,
     <<104, 101, 108, 108, 111>>,
     <<99, 108, 101, 97, 114>>,
     <<115, 104, 117, 116, 100, 111, 119, 110>>,
     <<>>,
     <<32, 32, 104, 101, 108, 108, 111, 32, 9>>,
     <<9, 99, 108, 101, 97, 114, 10>>,
     <<32>>,
     <<104, 101, 108, 111>>,
     <<72, 69, 76, 80>>,
     <<104, 101, 108, 112, 32, 109, 101>>}

InitShell ==
    /\ InitCommon
    /\ InitBootMemory
    /\ pc = "shell"
    /\ int_enabled = FALSE
    /\ flood = "none"
    /\ script = <<>>
    /\ writer \in ConsoleStarts
    /\ console_op = NoCall
    /\ port_out = <<>>
    /\ InitLateIdle

NextShell == \E line \in ShellLines : ShellParse(line)

SpecShell == InitShell /\ [][NextShell]_vars

(***************************************************************************)
(* The line-editing specification: the shell is reading keys after its     *)
(* prompt, on the first or the last row, with nothing typed yet or with a  *)
(* line of x's that ends before, at or after the end of the row; then any  *)
(* decoded keys.                                                           *)
(***************************************************************************)
\* n characters typed and echoed from w (the first half, then the rest).
RECURSIVE typed_line(_, _)
typed_line(w, n) ==
    IF n = 0 \/ w.panic THEN w
    ELSE IF n = 1 THEN write_string(w, <<120>>)
    ELSE typed_line(typed_line(w, n \div 2), n - (n \div 2))

\* The cell of the i-th character typed after a prompt at (row, 0), and
\* the rows the screen has scrolled by when n characters have been typed.
TypedCell(row, i) == <<row + ((i + 1) \div BUFFER_WIDTH), (i + 1) % BUFFER_WIDTH>>
TypedScroll(row, n) ==
    IF n > 0 /\ TypedCell(row, n)[1] > BUFFER_HEIGHT - 1
    THEN TypedCell(row, n)[1] - (BUFFER_HEIGHT - 1) ELSE 0

EditStartRows == {0, BUFFER_HEIGHT - 1}
EditStartLengths == {0, 1, BUFFER_WIDTH - 2, BUFFER_WIDTH - 1}

EditKeys == {Unicode(120), Unicode(NEWLINE), Unicode(8), Unicode(127), RawKey}

InitEdit ==
    /\ InitBesideCli
    /\ cliPc = "read"
    /\ InitBootMemory
    /\ pc = "edit"
    /\ int_enabled = FALSE
    /\ flood = "none"
    /\ script = <<>>
    /\ console_op = NoCall
    /\ port_out = <<>>
    /\ cpu = CpuReset
    /\ mem = NoMem
    /\ heap_area = NoArea
    /\ \E row \in EditStartRows, n \in EditStartLengths,
          chars \in {BootCells, BlankCells} :
          /\ writer = typed_line(
                          write_string(WriterAt(row, 0, chars), PROMPT), n)
          /\ buffer = [i \in 1..n |-> 120]
          /\ edit = [typed |-> [i \in 1..n |-> Unicode(120)],
                     cells |-> [i \in 1..n |->
                                   <<TypedCell(row, i)[1] - TypedScroll(row, n),
                                     TypedCell(row, i)[2]>>],
                     parsed |-> <<>>,
                     prompts |-> 1]

NextEdit ==
    \/ \E d \in EditKeys : EditKey(d)
    \/ EditPrompt

SpecEdit == InitEdit /\ [][NextEdit]_vars

(***************************************************************************)
(* The CPU specification: the kernel with lib.rs init taken step by step,  *)
(* and with exceptions raised by the main flow.                            *)
(***************************************************************************)
InitCpu ==
    /\ InitCommon
    /\ InitMemory
    /\ pc = "gdt"
    /\ int_enabled = FALSE
    /\ flood = "none"
    /\ script \in Scripts

NextCpu ==
    \/ GdtLoad
    \/ CsSetReg
    \/ LoadTss
    \/ IdtLoad
    \/ PicsInitialize
    \/ InterruptsEnable
    \/ InitHeapPage
    \/ InitHeapDone
    \/ BootLog
    \/ BootShowLock
    \/ BootShowClear
    \/ BootShowPrint
    \/ KmainSpawn
    \/ Executor
    \/ Cli
    \/ PrintEnd
    \/ KeyboardIrq
    \/ TimerIrq
    \/ Breakpoint
    \/ PageFault
    \/ DoubleFault

SpecCpu == InitCpu /\ [][NextCpu]_vars

(***************************************************************************)
(* memory.rs memmove, on a memory of MemSize bytes whose addresses are     *)
(* 1..MemSize: the two copy loops, one byte at a step, as the code runs    *)
(* them.                                                                   *)
(***************************************************************************)
MemSize == 5
MaxMoves == 2

\* for _ in 0..num { *dest_ptr = *src_ptr; dest_ptr += 1; src_ptr += 1 }
RECURSIVE copy_forward(_, _, _, _, _)
copy_forward(bytes, dest, src, num, i) ==
    IF i = num THEN bytes
    ELSE copy_forward([bytes EXCEPT ![dest + i] = bytes[src + i]],
                      dest, src, num, i + 1)

\* dest_ptr = dest + num; src_ptr = src + num;
\* for _ in 0..num { dest_ptr -= 1; src_ptr -= 1; *dest_ptr = *src_ptr }
RECURSIVE copy_backward(_, _, _, _, _)
copy_backward(bytes, dest, src, num, i) ==
    IF i = 0 THEN bytes
    ELSE copy_backward([bytes EXCEPT ![dest + i - 1] = bytes[src + i - 1]],
                       dest, src, num, i - 1)

memmoveForward(bytes, dest, src, num) ==
    [bytes |-> copy_forward(bytes, dest, src, num, 0), ret |-> dest]

memmove(bytes, dest, src, num) ==
    [bytes |-> IF dest < src THEN copy_forward(bytes, dest, src, num, 0)
               ELSE copy_backward(bytes, dest, src, num, num),
     ret |-> dest]

\* A call of memmove whose two ranges lie in the memory.
Memmove(dest, src, num) ==
    /\ pc = "memmove"
    /\ mem.calls < MaxMoves
    /\ dest + num - 1 <= MemSize
    /\ src + num - 1 <= MemSize
    /\ LET r == memmove(mem.bytes, dest, src, num) IN
       mem' = [bytes |-> r.bytes, before |-> mem.bytes, dest |-> dest,
               src |-> src, num |-> num, ret |-> r.ret,
               calls |-> mem.calls + 1]
    /\ UNCHANGED <<pc, why, kernelVars, frameVars, heapVars, listVars, bump,
                   list_heads, consoleVars, edit, cpu, heap_area>>

InitMove ==
    /\ InitCommon
    /\ InitBootMemory
    /\ pc = "memmove"
    /\ int_enabled = FALSE
    /\ flood = "none"
    /\ script = <<>>
    /\ writer = WriterLazy
    /\ console_op = NoCall
    /\ port_out = <<>>
    /\ edit = NoEdit
    /\ cpu = CpuReset
    /\ heap_area = NoArea
    /\ mem = [NoMem EXCEPT !.bytes = [a \in 1..MemSize |-> 16 * a],
                           !.before = [a \in 1..MemSize |-> 16 * a]]

NextMove ==
    \E dest \in 1..MemSize, src \in 1..MemSize, num \in 0..MemSize :
        Memmove(dest, src, num)

SpecMove == InitMove /\ [][NextMove]_vars

(***************************************************************************)
(* Claims.                                                                 *)
(***************************************************************************)
InReady(t) == \E i \in 1..Len(task_queue) : task_queue[i] = t

\* The shell task returned Pending and is not being polled.
CliSuspended == pc # "poll" /\ cliPc = "pop1" /\ polls[CLI_ID] > 0

\* C1: the CPU is halted only on an empty ready queue, the re-check of
\* sleep_if_idle runs with interrupts disabled and the halt leaves them
\* enabled: no wake pushed by an interrupt handler is left waiting behind a
\* hlt that only a later interrupt would end.
C1_NoLostWake ==
    /\ pc = "halted" => task_queue = <<>> /\ int_enabled
    /\ pc = "sleep_recheck" => ~int_enabled

\* A wake raced in between the first check of sleep_if_idle and the re-check.
C1_Witness == pc = "sleep_recheck" /\ task_queue # <<>>

\* C3: whenever the shell task is suspended in Pending, either its id is on
\* the ready queue, or the scancode queue is empty and its waker is
\* registered, so that the next scancode's interrupt wakes it.
C3_NoStrandedScancode ==
    CliSuspended =>
        \/ InReady(CLI_ID)
        \/ SCANCODE_QUEUE.items = <<>> /\ WAKER = {CLI_ID}

\* The interrupt hit between the first pop and the registration: only the
\* re-check sees its scancode.
C3_Witness ==
    /\ pc = "poll"
    /\ cliPc = "pop2"
    /\ SCANCODE_QUEUE.items # <<>>
    /\ ~InReady(CLI_ID)

NotDropped(i) == i \notin (dropFull \cup dropUninit)

\* The scancodes the handler enqueued, in arrival order.
Kept == SelectSeq([i \in 1..kbdPos |-> i], NotDropped)

Stream == delivered \o SCANCODE_QUEUE.items

\* The scancodes raised so far that are neither delivered nor queued.
Missing == {i \in 1..kbdPos : \A j \in 1..Len(Stream) : Stream[j] # i}

FloodDone == kbdPos = FloodSize

FloodKeep == Min(FloodSize, SCANCODE_CAPACITY)

C6_WriterLockedOnlyWithIntsOff == WRITER => ~int_enabled

\* C7: every keyboard interrupt runs to completion and sends its
\* end-of-interrupt; no handler spins on a lock.
C7_HandlerCompletes == ~hung /\ eoi = kbdPos

\* C2: no task is polled after one of its polls returned Ready, and the run
\* loop does not leave its drain pass for sleep_if_idle while a spawned
\* task has never been polled.
C2_PolledOnceNeverAfterReady ==
    /\ ~polledAfterReady
    /\ pc \in {"idle", "sleep_disable", "sleep_recheck", "halted"} =>
           \A t \in tasks \cup done : polls[t] >= 1

\* A stale id of a completed task was popped and skipped.
C2_Witness == lastSkip /\ done # {} /\ pc = "halted"

\* C8: spawn on the executor's state panics on an id already in the table
\* and on a full ready queue; otherwise it adds the id to the table and
\* pushes it at the back of the queue.
C8_SpawnContract ==
    \A id \in Ids :
        LET r == spawn(tasks, task_queue, id) IN
        IF id \in tasks \/ Len(task_queue) >= ReadyCap THEN r.panic
        ELSE /\ ~r.panic
             /\ r.tasks = tasks \cup {id}
             /\ r.queue = Append(task_queue, id)

\* A spawn panicked on the full ready queue, after others succeeded.
C8_Witness ==
    /\ why = "spawn"
    /\ Len(task_queue) = ReadyCap
    /\ \A i \in 1..Len(task_queue) : task_queue[i] \in tasks

\* C9: a wake of task t's waker, from a poll or from an interrupt handler,
\* pushes t once at the back of the ready queue and touches nothing else of
\* the executor; on a full queue it panics and the queue is unchanged.
C9_WakeContract ==
    [][\A t \in Ids :
          (TaskWake(t) \/ IrqWake(t)) =>
              /\ IF Len(task_queue) >= ReadyCap
                 THEN pc' = "panic" /\ task_queue' = task_queue
                 ELSE pc' # "panic" /\ task_queue' = Append(task_queue, t)
              /\ UNCHANGED <<tasks, waker_cache, NEXT_ID, cur, made, polls,
                             done, created>>]_vars

\* A wake panicked on the full ready queue.
C9_Witness == why = "wake" /\ pc = "panic" /\ Len(task_queue) = ReadyCap

\* C10: a pop of an id that is not in the task table polls nothing, creates
\* no waker, does not panic and stays in the drain loop.
C10_SkipAbsent ==
    [][(ExecPop /\ Head(task_queue) \notin tasks) =>
          /\ pc' = "drain"
          /\ task_queue' = Tail(task_queue)
          /\ UNCHANGED <<tasks, waker_cache, created, polls, cur, done>>]_vars

\* An absent id was skipped and the loop goes on with the next id.
C10_Witness == lastSkip /\ pc = "drain" /\ task_queue # <<>>

\* C11: a poll that returns Ready removes the task and its cached waker in
\* the same step, a poll that returns Pending changes neither map, and the
\* ids with a cached waker are always ids of the task table.
C11_WakerCacheWithinTasks ==
    /\ [](waker_cache \subseteq tasks)
    /\ [][pc = "poll" /\ pc' = "drain" =>
             IF cur \in done' \ done
             THEN /\ tasks' = tasks \ {cur}
                  /\ waker_cache' = waker_cache \ {cur}
             ELSE UNCHANGED <<tasks, waker_cache>>]_vars

\* A task completed and lost its waker while another task keeps its own.
C11_Witness ==
    /\ \E t \in done : t \in created /\ t \notin tasks \cup waker_cache
    /\ waker_cache # {}

\* C12: every Task::new hands out an id greater than every id handed out
\* before, so no two tasks share an id and a task built by Task::new is
\* never spawned under an id that is already in the table.
C12_IdsNeverReused ==
    /\ [](/\ made \cap (tasks \cup done) = {}
          /\ \A y \in made \cup tasks \cup done : y < NEXT_ID)
    /\ [][/\ \A x \in made' \ made :
                 \A y \in made \cup tasks \cup done : x > y
          /\ \A id \in Ids : ExecSpawn(id) => id \notin tasks]_vars

\* Every id of the bound was handed out; some tasks are spawned, one is not.
C12_Witness == NEXT_ID = MaxTasks /\ tasks # {} /\ made # {}

\* C13: the drain loop polls the id at the front of the ready queue, and
\* the queue changes only by losing its front to the drain loop or by
\* gaining one id at its back, so ids are polled in the order of their
\* pushes.
C13_PolledInPushOrder ==
    [][/\ pc = "drain" /\ pc' = "poll" =>
            cur' = Head(task_queue) /\ task_queue' = Tail(task_queue)
       /\ task_queue' # task_queue =>
            \/ /\ pc = "drain"
               /\ task_queue # <<>>
               /\ task_queue' = Tail(task_queue)
            \/ \E t \in Ids : task_queue' = Append(task_queue, t)]_vars

\* A task is being polled while a different id, pushed later, waits.
C13_Witness ==
    pc = "poll" /\ task_queue # <<>> /\ cur # Head(task_queue)

\* C14: the kernel spawns one task, the shell; only a poll of the shell
\* takes scancodes from the queue; ScancodeStream::new is never called a
\* second time, and a second call would panic and leave the queue alone.
C14_SingleReader ==
    /\ [](/\ tasks \subseteq {CLI_ID}
          /\ NEXT_ID <= 1
          /\ why # "stream"
          /\ LET r == ScancodeStream_new(SCANCODE_QUEUE, ScancodeCapacity) IN
             /\ r.panic = SCANCODE_QUEUE.init
             /\ SCANCODE_QUEUE.init => r.queue = SCANCODE_QUEUE)
    /\ [][delivered' # delivered => pc = "poll" /\ cur = CLI_ID]_vars

\* The shell created the stream and has read a scancode from it.
C14_Witness == SCANCODE_QUEUE.init /\ delivered # <<>> /\ tasks = {CLI_ID}

RECURSIVE UsableCount(_, _)
\* The number of frames of the Usable regions among the first i regions.
UsableCount(map, i) ==
    IF i = 0 THEN 0
    ELSE UsableCount(map, i - 1) +
         (IF map[i].region_type = "Usable" /\ map[i].end > map[i].start
          THEN map[i].end - map[i].start ELSE 0)

InRegion(f, r) == r.start <= f /\ f < r.end

NonOverlapping(map) ==
    \A i \in 1..Len(map) : \A j \in 1..Len(map) :
        i < j => \A f \in 0..MaxFrameNo :
                     ~(InRegion(f, map[i]) /\ InRegion(f, map[j]))

\* C15: the k-th call of allocate_frame (k from 0) returns the k-th frame
\* of the Usable regions walked in map order from start up to but not
\* including end, and absent from the number of such frames on; on a map
\* of non-overlapping regions no frame is returned twice and none lies in
\* a region that is not Usable.
C15_KthUsableFrame ==
    /\ next = Len(frames)
    /\ \A k \in 1..Len(frames) :
          /\ frames[k].some <=> k - 1 < UsableCount(memory_map, Len(memory_map))
          /\ frames[k].some =>
                \E i \in 1..Len(memory_map) :
                    /\ memory_map[i].region_type = "Usable"
                    /\ InRegion(frames[k].frame, memory_map[i])
                    /\ k - 1 = UsableCount(memory_map, i - 1)
                               + (frames[k].frame - memory_map[i].start)
    /\ NonOverlapping(memory_map) =>
          /\ \A k \in 1..Len(frames) : \A l \in 1..Len(frames) :
                k < l /\ frames[k].some /\ frames[l].some =>
                    frames[k].frame # frames[l].frame
          /\ \A k \in 1..Len(frames) : \A i \in 1..Len(memory_map) :
                frames[k].some /\ memory_map[i].region_type # "Usable" =>
                    ~InRegion(frames[k].frame, memory_map[i])

\* A map with a non-empty Reserved region before a Usable one: frames were
\* handed out from the Usable region, then the allocator ran dry.
C15_Witness ==
    /\ Len(memory_map) = 2
    /\ memory_map[1].region_type = "Reserved"
    /\ memory_map[1].start < memory_map[1].end
    /\ memory_map[2].region_type = "Usable"
    /\ Len(frames) >= 3
    /\ frames[1].some /\ frames[2].some
    /\ ~frames[Len(frames)].some

\* C16: once init_heap has returned Ok, each of the 25 heap pages is mapped
\* PRESENT|WRITABLE to a frame of its own, and no heap frame is a frame
\* that was taken for an intermediate page table.
C16_HeapPagesDistinctFrames ==
    ALLOCATOR =>
        /\ Cardinality(HeapPages) = 25
        /\ \A p \in HeapPages :
              /\ page_table[p].present
              /\ page_table[p].flags = {"PRESENT", "WRITABLE"}
              /\ \A q \in HeapPages :
                    p # q => page_table[p].frame # page_table[q].frame
              /\ \A j \in 1..Len(table_frames) :
                    page_table[p].frame # table_frames[j]

\* init_heap succeeded after creating all three intermediate tables.
C16_Witness == ALLOCATOR /\ Len(table_frames) = 3 /\ pc = "drain"

\* C17: once the frame allocator has answered absent during init_heap the
\* kernel has panicked on the heap failure: the heap allocator is not
\* initialized, no executor was created, no task was spawned or polled.
C17_ExhaustionAbortsBoot ==
    (\E k \in 1..Len(frames) : ~frames[k].some) =>
        /\ pc = "panic"
        /\ why = "heap"
        /\ ~ALLOCATOR
        /\ tasks = {} /\ task_queue = <<>> /\ NEXT_ID = 0
        /\ created = {}
        /\ \A t \in Ids : polls[t] = 0

\* The frames ran out for an intermediate table, and on another map for a
\* heap page after some pages were mapped.
C17_Witness ==
    /\ why = "heap"
    /\ \/ heap_page = 0 /\ Len(table_frames) = 2
       \/ heap_page > 0 /\ Len(table_frames) = 3

Overlap(m, n) == m.addr < n.addr + n.size /\ n.addr < m.addr + m.size

\* C18: after init and any allocs and matching deallocs no assertion of
\* add_free_region has failed, and every node of the free list starts at a
\* multiple of the node alignment, has at least the size of a node and
\* overlaps no other node.
C18_FreeNodesWellFormed ==
    /\ why # "list"
    /\ \A i \in 1..Len(head) :
          /\ head[i].addr % NODE_ALIGN = 0
          /\ head[i].size >= NODE_SIZE
          /\ \A j \in 1..Len(head) : i # j => ~Overlap(head[i], head[j])

\* Blocks were freed: the list holds three nodes while a block is live.
C18_Witness == Len(head) >= 3 /\ live # {} /\ ret.op = "dealloc"

\* C19: for every node of the free list, at A with size S, the next node
\* of the list starts at an address greater than A+S.
C19_NextHeaderBeyondRegion ==
    \A i \in 1..(Len(head) - 1) :
        head[i + 1].addr > head[i].addr + head[i].size

\* The least multiple of align that is not below addr.
AlignedAtOrAfter(addr, align) ==
    CHOOSE a \in addr .. (addr + align - 1) : a % align = 0

\* The region can serve size bytes at align: they end within it and leave
\* no tail or a tail that can hold a node.
Qualifies(region, size, align) ==
    LET alloc_end == AlignedAtOrAfter(region.addr, align) + size
        end == region.addr + region.size
    IN alloc_end <= end /\ (end - alloc_end = 0 \/ end - alloc_end >= NODE_SIZE)

Without(list, i) == SubSeq(list, 1, i - 1) \o SubSeq(list, i + 1, Len(list))

\* C20: on every reachable free list and for every size and alignment
\* size_align can produce, find_region returns the first region of the
\* list that qualifies with its aligned start, the list it leaves is the
\* old list without that region, and it returns none, leaving the list as
\* it was, exactly if no region qualifies.
C20_FindRegionFirstFit ==
    \A l \in Layouts :
        LET sa == size_align(l)
            r == find_region(head, sa.size, sa.align)
            q == {i \in 1..Len(head) : Qualifies(head[i], sa.size, sa.align)}
        IN IF q = {}
           THEN ~r.found /\ r.list = head
           ELSE LET i == CHOOSE x \in q : \A y \in q : x <= y IN
                /\ r.found
                /\ r.region = head[i]
                /\ r.alloc_start = AlignedAtOrAfter(head[i].addr, sa.align)
                /\ r.list = Without(head, i)

\* An alloc has just been served although the first region of the list it
\* searched did not qualify: the list still starts with that region.
C20_Witness ==
    /\ ret.op = "alloc" /\ ret.ptr.some
    /\ Len(head) >= 2
    /\ \E l \in Layouts :
          /\ ~Qualifies(head[1], size_align(l).size, size_align(l).align)
          /\ Qualifies(head[2], size_align(l).size, size_align(l).align)

RECURSIVE TotalFree(_)
\* The bytes of all regions of a free list.
TotalFree(list) ==
    IF list = <<>> THEN 0 ELSE Head(list).size + TotalFree(Tail(list))

\* C21: in every reachable state of either allocator, an alloc of more
\* bytes than all the free space left returns null, and an alloc that
\* returns null does not panic and leaves the allocator as it was: the
\* same free list, the same next and the same live count.
C21_FailedAllocChangesNothing ==
    /\ pc = "list" =>
          \A l \in Layouts :
              LET r == list_alloc(head, l) IN
              /\ l.size > TotalFree(head) => ~r.ptr.some
              /\ ~r.ptr.some => r.list = head /\ ~r.panic
    /\ pc = "bump" =>
          \A l \in BumpLayouts :
              LET r == bump_alloc(bump, l) IN
              /\ l.size > bump.heap_end - bump.next => ~r.ptr.some
              /\ ~r.ptr.some => r.bump = bump
    /\ ret.op = "alloc" /\ ~ret.ptr.some => pc # "panic"

\* The bump allocator has just refused a request while blocks are live and
\* less than 24 bytes are left.
C21_Witness ==
    /\ pc = "bump"
    /\ ret.op = "alloc" /\ ~ret.ptr.some
    /\ bump.allocations > 0
    /\ bump.heap_end - bump.next < 24

\* C22: once the bump allocator is initialized, next does not decrease in
\* a step that leaves blocks live, it decreases only in the dealloc that
\* takes the live count from 1 to 0, and that dealloc sets it to
\* heap_start.
C22_BumpNextMonotoneInEpoch ==
    [][bump.init =>
         /\ bump'.allocations > 0 => bump'.next >= bump.next
         /\ bump'.next < bump.next =>
               /\ bump.allocations = 1 /\ bump'.allocations = 0
               /\ ret'.op = "dealloc"
         /\ bump.allocations > 0 /\ bump'.allocations = 0 =>
               bump'.next = bump.heap_start]_vars

\* The last live block was freed and next is back at heap_start.
C22_Witness ==
    /\ bump.init /\ bump.allocations = 0
    /\ ret.op = "dealloc"
    /\ bump.next = bump.heap_start

\* The free lists after alloc(l) and the dealloc of the block it returned.
HeadsAfterPair(l) ==
    LET a == fsb_alloc(list_heads, head, l) IN
    fsb_dealloc(a.heads, a.fallback, a.ptr.frame, l).heads

\* The block sizes that hold a layout.
Holding(l) ==
    {j \in Classes : BLOCK_SIZES[j] >= l.size /\ BLOCK_SIZES[j] >= l.align}

LineAfter(w) ==
    IF w.cursor_position[1] < BUFFER_HEIGHT - 1 THEN w.cursor_position[1] + 1
    ELSE BUFFER_HEIGHT - 1

\* The cell (r, c) after a line advance from w: on the last row the cell
\* below it, or a blank on the last row; otherwise the cell itself.
CellAfterAdvance(w, r, c) ==
    IF w.cursor_position[1] < BUFFER_HEIGHT - 1 THEN w.chars[r][c]
    ELSE IF r < BUFFER_HEIGHT - 1 THEN w.chars[r + 1][c]
    ELSE [ascii_character |-> 32, color_code |-> w.color_code]

\* The cells of a are these 25 rows of 80 cells and no others.
WholeScreen(a) ==
    /\ DOMAIN a.chars = 0..24
    /\ \A r \in 0..24 : DOMAIN a.chars[r] = 0..79

\* C24: write_byte of a byte that is not a newline, with the cursor column
\* at 80, first advances the line (scrolling on row 24) and then stores the
\* byte at column 0 of that line; with the column below 80 the byte is
\* stored at the cursor; no byte is ever stored outside columns 0..79.
C24_WrapThenPlace ==
    pc = "console" =>
        \A b \in ConsoleBytes \ {NEWLINE} :
            LET a == write_byte(writer, b)
                row == writer.cursor_position[1]
                col == writer.cursor_position[2]
                cell == [ascii_character |-> b,
                         color_code |-> writer.color_code] IN
            /\ ~a.panic
            /\ WholeScreen(a)
            /\ col = 80 =>
                 /\ a.cursor_position = <<LineAfter(writer), 1>>
                 /\ \A r \in 0..24, c \in 0..79 :
                        a.chars[r][c] =
                            IF r = LineAfter(writer) /\ c = 0 THEN cell
                            ELSE CellAfterAdvance(writer, r, c)
            /\ col < 80 =>
                 /\ a.cursor_position = <<row, col + 1>>
                 /\ \A r \in 0..24, c \in 0..79 :
                        a.chars[r][c] =
                            IF r = row /\ c = col THEN cell
                            ELSE writer.chars[r][c]

\* Two bytes were written from the end of the last row: the first filled
\* column 79, the second scrolled the firmware's screen by one row and sits
\* at column 0 of the last row.
C24_Witness ==
    /\ pc = "console"
    /\ console_op = [calls |-> 2, op |-> "write_byte", arg |-> <<65>>]
    /\ writer.cursor_position = <<24, 1>>
    /\ writer.chars[24][0].ascii_character = 65
    /\ writer.chars[23][79].ascii_character = 65
    /\ writer.chars[0][0].ascii_character = 66

\* C25: new_line below row 24 increments the row and changes no cell; on
\* row 24 it copies every row r of 1..24 to row r-1, blanks row 24 and
\* stays on row 24; the column becomes 0 either way.  Two newlines written
\* from (24, 0) each leave the cursor at (24, 0) and together move the
\* screen up by two rows.
C25_NewLine ==
    pc = "console" =>
        LET a == new_line(writer)
            n1 == write_byte(writer, NEWLINE)
            n2 == write_byte(n1, NEWLINE)
            blank == [ascii_character |-> 32,
                      color_code |-> writer.color_code] IN
        /\ a.cursor_position = <<LineAfter(writer), 0>>
        /\ WholeScreen(a)
        /\ \A r \in 0..24, c \in 0..79 :
               a.chars[r][c] = CellAfterAdvance(writer, r, c)
        /\ writer.cursor_position = <<24, 0>> =>
               /\ n1.cursor_position = <<24, 0>>
               /\ n2.cursor_position = <<24, 0>>
               /\ \A r \in 0..24, c \in 0..79 :
                      /\ n1.chars[r][c] =
                             IF r < 24 THEN writer.chars[r + 1][c] ELSE blank
                      /\ n2.chars[r][c] =
                             IF r < 23 THEN writer.chars[r + 2][c] ELSE blank

\* Two newlines were written on the last row of the firmware's screen: its
\* row 2 is on row 0, its last row on row 22, and rows 23 and 24 are blank.
C25_Witness ==
    /\ pc = "console"
    /\ console_op = [calls |-> 2, op |-> "write_byte", arg |-> <<NEWLINE>>]
    /\ writer.cursor_position = <<24, 0>>
    /\ writer.chars[0][0].ascii_character = 67
    /\ writer.chars[22][79].ascii_character = 121
    /\ writer.chars[23][0].ascii_character = 32
    /\ writer.chars[24][79].ascii_character = 32

\* C26: clear_screen leaves the cursor at (0, 0) and every one of the
\* 80x25 cells holding (0x20, the writer's attribute), and a second call
\* leaves the writer exactly as the first left it.
C26_ClearScreenIdempotent ==
    pc = "console" =>
        LET a == clear_screen(writer) IN
        /\ a.cursor_position = <<0, 0>>
        /\ a.color_code = writer.color_code
        /\ WholeScreen(a)
        /\ \A r \in 0..24, c \in 0..79 :
               a.chars[r][c] = [ascii_character |-> 32,
                                color_code |-> writer.color_code]
        /\ ~a.panic
        /\ clear_screen(a) = a

\* The screen was cleared by the second call made on the writer.
C26_Witness ==
    /\ pc = "console"
    /\ console_op = [calls |-> 2, op |-> "clear_screen", arg |-> <<>>]
    /\ writer.cursor_position = <<0, 0>>
    /\ writer.crtc = <<0, 0>>
    /\ \A r \in 0..24, c \in 0..79 : writer.chars[r][c].ascii_character = 32

\* The byte the screen shows for byte b of a string.
Shown(b) == IF b \in 32..126 THEN b ELSE 254

\* Where the bytes of s go when the cursor is at (line, col), lines counted
\* on without regard to the screen's height: the cell of each byte, and for
\* a newline the start of the line after it.
RECURSIVE Track(_, _, _)
Track(line, col, s) ==
    IF s = <<>> THEN <<>>
    ELSE IF Head(s) = 10
    THEN <<[line |-> line + 1, col |-> 0]>> \o Track(line + 1, 0, Tail(s))
    ELSE IF col = 80
    THEN <<[line |-> line + 1, col |-> 0]>> \o Track(line + 1, 1, Tail(s))
    ELSE <<[line |-> line, col |-> col]>> \o Track(line, col + 1, Tail(s))

\* The rows the screen has scrolled by when s has been written from w.
ScrolledBy(w, s) ==
    LET t == Track(w.cursor_position[1], w.cursor_position[2], s) IN
    IF s = <<>> \/ t[Len(s)].line <= 24 THEN 0 ELSE t[Len(s)].line - 24

\* C27: after write_string(s) the cells from the cursor's position before
\* the call, followed through line wraps and scrolls, hold the bytes of s
\* in order, 0xFE standing for every byte that is neither 0x20..0x7E nor a
\* newline, and a newline advancing the line; every other cell holds what
\* the scrolls brought there.
C27_WriteStringShown ==
    pc = "console" =>
        \A s \in ConsoleStrings :
            LET a == write_string(writer, s)
                t == Track(writer.cursor_position[1],
                           writer.cursor_position[2], s)
                k == ScrolledBy(writer, s)
                bytes == {i \in 1..Len(s) : s[i] # 10}
                taken == {<<t[i].line - k, t[i].col>> : i \in bytes}
                blank == [ascii_character |-> 32,
                          color_code |-> writer.color_code] IN
            /\ ~a.panic
            /\ WholeScreen(a)
            /\ \A i \in bytes :
                   /\ \A j \in bytes : t[i] = t[j] => i = j
                   /\ t[i].line - k >= 0 =>
                          a.chars[t[i].line - k][t[i].col] =
                              [ascii_character |-> Shown(s[i]),
                               color_code |-> writer.color_code]
            /\ \A r \in 0..24 :
                   IF r \in {p[1] : p \in taken}
                   THEN \A c \in 0..79 :
                            <<r, c>> \notin taken =>
                                a.chars[r][c] =
                                    IF r + k <= 24 THEN writer.chars[r + k][c]
                                    ELSE blank
                   ELSE a.chars[r] =
                            IF r + k <= 24 THEN writer.chars[r + k]
                            ELSE [c \in 0..79 |-> blank]

\* A two-byte character and a newline were written from the end of the
\* last row: one 0xFE at the end of a row, the other at the start of the
\* next, both moved up by the two scrolls.
C27_Witness ==
    /\ pc = "console"
    /\ console_op = [calls |-> 1, op |-> "write_string",
                     arg |-> <<195, 169, 10>>]
    /\ writer.cursor_position = <<24, 0>>
    /\ writer.chars[22][79].ascii_character = 254
    /\ writer.chars[23][0].ascii_character = 254
    /\ writer.chars[21][0].ascii_character = 65 + 23

\* test_println_output's string, and a string as long as a line.
FitsOnALine ==
    {<<65>>, <<65, 66>>,
     <<83, 111, 109, 101, 32, 116, 101, 115, 116, 32, 115, 116, 114, 105,
       110, 103, 32, 116, 104, 97, 116, 32, 102, 105, 116, 115, 32, 111,
       110, 32, 97, 32, 115, 105, 110, 103, 108, 101, 32, 108, 105, 110,
       101>>,
     [i \in 1..80 |-> 48 + (i % 10)]}

\* C28: with the cursor on the bottom row, a newline, a printable string s
\* that fits on a line and a newline leave the characters of s in order
\* in row BUFFER_HEIGHT - 2 from column 0.
C28_PrintlnOnBottomRow ==
    pc = "console" /\ writer.cursor_position[1] = 24 =>
        \A s \in FitsOnALine :
            LET a == write_string(
                         write_string(write_string(writer, <<10>>), s),
                         <<10>>) IN
            /\ ~a.panic
            /\ a = write_string(writer, <<10>> \o s \o <<10>>)
            /\ \A i \in 1..Len(s) :
                   a.chars[25 - 2][i - 1] =
                       [ascii_character |-> s[i],
                        color_code |-> writer.color_code]

\* "\nAB\n" was written with the cursor at the end of the bottom row of
\* the firmware's screen: AB is on row 23, the firmware's last row on 22.
C28_Witness ==
    /\ pc = "console"
    /\ console_op = [calls |-> 1, op |-> "write_string",
                     arg |-> <<10, 65, 66, 10>>]
    /\ writer.cursor_position = <<24, 0>>
    /\ writer.chars[23][0].ascii_character = 65
    /\ writer.chars[23][1].ascii_character = 66
    /\ writer.chars[22][1].ascii_character = 65 + 24 + 32

\* test_println_many: println!("test_println_many output"), n times, as
\* far as no print panics (the first half of them, then the rest).
RECURSIVE println_many(_, _)
println_many(w, n) ==
    IF n = 0 \/ w.panic THEN w
    ELSE IF n = 1
    THEN write_string(
             write_string(w,
                 <<116, 101, 115, 116, 95, 112, 114, 105, 110, 116, 108,
                   110, 95, 109, 97, 110, 121, 32, 111, 117, 116, 112,
                   117, 116>>),
             <<10>>)
    ELSE println_many(println_many(w, n \div 2), n - (n \div 2))

\* The cursor of w is on the screen, or just past the end of a line.
CursorInRange(w) ==
    /\ w.cursor_position[1] \in 0..24
    /\ w.cursor_position[2] \in 0..80
    /\ ~w.panic
    /\ WholeScreen(w)

\* C29: whatever write_byte, write_string, clear_screen and
\* move_cursor_back calls are made, the cursor row stays in 0..24 and the
\* column in 0..80 and no cell outside rows 0..24 and columns 0..79 is
\* accessed, so that no print panics; so it is after 200 println! lines.
C29_CursorStaysInRange ==
    /\ pc # "panic"
    /\ pc = "console" =>
        /\ CursorInRange(writer)
        /\ console_op.calls = 0 => CursorInRange(println_many(writer, 200))

\* A byte was written at the end of the last row, which put the column at
\* 80, and the cursor was moved back onto the byte.
C29_Witness ==
    /\ pc = "console"
    /\ console_op = [calls |-> 2, op |-> "move_cursor_back", arg |-> <<>>]
    /\ writer.cursor_position = <<24, 79>>
    /\ writer.chars[24][79].ascii_character = 65

\* What each command shows, line by line, each with its newline.
ExpectedOutput(t) ==
    CASE t = <<104, 101, 108, 112>> ->
            \* the help block
            <<<<65, 118, 97, 105, 108, 97, 98, 108, 101, 32, 99, 111, 109,
                109, 97, 110, 100, 115, 58, 10>>,
              <<32, 32, 104, 101, 108, 112, 32, 32, 32, 32, 32, 45, 32, 83,
                104, 111, 119, 32, 116, 104, 105, 115, 32, 104, 101, 108, 112,
                32, 109, 101, 110, 117, 10>>,
              <<32, 32, 104, 101, 108, 108, 111, 32, 32, 32, 32, 45, 32, 80,
                114, 105, 110, 116, 32, 39, 72, 101, 108, 108, 111, 44, 32,
                87, 111, 114, 108, 100, 33, 39, 10>>,
              <<32, 32, 99, 108, 101, 97, 114, 32, 32, 32, 32, 45, 32, 67,
                108, 101, 97, 114, 32, 116, 104, 101, 32, 115, 99, 114, 101,
                101, 110, 10>>,
              <<32, 32, 115, 104, 117, 116, 100, 111, 119, 110, 32, 45, 32,
                80, 111, 119, 101, 114, 32, 111, 102, 102, 32, 116, 104, 101,
                32, 115, 121, 115, 116, 101, 109, 10>>>>
      [] t = <<104, 101, 108, 108, 111>> ->
            \* "Hello, World!\n"
            <<<<72, 101, 108, 108, 111, 44, 32, 87, 111, 114, 108, 100, 33, 10>>>>
      [] t = <<115, 104, 117, 116, 100, 111, 119, 110>> ->
            \* "Shutting down...\n"
            <<<<83, 104, 117, 116, 116, 105, 110, 103, 32, 100, 111, 119, 110,
                46, 46, 46, 10>>>>
      [] t \in {<<>>, <<99, 108, 101, 97, 114>>} -> <<>>
      [] OTHER ->
            \* "Unknown command. Type 'help' for a list of commands.\n"
            <<<<85, 110, 107, 110, 111, 119, 110, 32, 99, 111, 109, 109, 97,
                110, 100, 46, 32, 84, 121, 112, 101, 32, 39, 104, 101, 108,
                112, 39, 32, 102, 111, 114, 32, 97, 32, 108, 105, 115, 116,
                32, 111, 102, 32, 99, 111, 109, 109, 97, 110, 100, 115, 46, 10>>>>

\* The writer after the strings of out have been written from w.
RECURSIVE Written(_, _)
Written(w, out) ==
    IF out = <<>> \/ w.panic THEN w
    ELSE Written(write_string(w, Head(out)), Tail(out))

\* C30: what parse does depends only on the trimmed line: help prints the
\* help block of the four commands, hello prints "Hello, World!", clear
\* clears the console and leaves the cursor at (0, 0), shutdown prints
\* "Shutting down..." and writes the 16-bit value 0x2000 to port 0x604, an
\* empty line prints nothing, and every other line prints the unknown
\* command message; only shutdown writes to the port.
C30_ParseDispatch ==
    pc = "shell" =>
        \A line \in ShellLines :
            LET t == Trim(line)
                r == parse(writer, port_out, line) IN
            /\ r = parse(writer, port_out, t)
            /\ r.writer =
                   IF t = <<99, 108, 101, 97, 114>>
                   THEN [writer EXCEPT
                            !.cursor_position = <<0, 0>>,
                            !.crtc = <<0, 0>>,
                            !.chars = [row \in 0..24 |-> [col \in 0..79 |->
                                [ascii_character |-> 32,
                                 color_code |-> writer.color_code]]]]
                   ELSE Written(writer, ExpectedOutput(t))
            /\ r.port_out =
                   IF t = <<115, 104, 117, 116, 100, 111, 119, 110>>
                   THEN Append(port_out,
                               [port |-> 6 * 256 + 4, value |-> 2 * 4096,
                                bits |-> 16])
                   ELSE port_out

\* hello was parsed from the top of the screen, then shutdown: both
\* messages are on the screen and the port has been written once.
C30_Witness ==
    /\ pc = "off"
    /\ console_op = [calls |-> 2, op |-> "parse",
                     arg |-> <<115, 104, 117, 116, 100, 111, 119, 110>>]
    /\ Len(port_out) = 1
    /\ writer.cursor_position = <<2, 0>>
    /\ writer.chars[0][0].ascii_character = 72
    /\ writer.chars[0][12].ascii_character = 33
    /\ writer.chars[1][0].ascii_character = 83
    /\ writer.chars[1][15].ascii_character = 46

\* What a run of decoded keys does to a line: it deletes del characters
\* from the end of what was typed before it (as far as there are any) and
\* then adds str.  A run is the first half of its keys, then the rest; a
\* backspace or delete of the rest takes away the last character the first
\* half has left, or counts against what was typed before the run.
RECURSIVE Edits(_)
Edits(keys) ==
    IF keys = <<>> THEN [del |-> 0, str |-> <<>>]
    ELSE IF Len(keys) = 1
    THEN IF keys[1].kind = "raw" THEN [del |-> 0, str |-> <<>>]
         ELSE IF keys[1].ch \in {8, 127} THEN [del |-> 1, str |-> <<>>]
         ELSE [del |-> 0, str |-> <<keys[1].ch>>]
    ELSE LET h == Len(keys) \div 2
             a == Edits(SubSeq(keys, 1, h))
             b == Edits(SubSeq(keys, h + 1, Len(keys))) IN
         IF b.del <= Len(a.str)
         THEN [del |-> a.del,
               str |-> SubSeq(a.str, 1, Len(a.str) - b.del) \o b.str]
         ELSE [del |-> a.del + (b.del - Len(a.str)), str |-> b.str]

\* The line the keys typed after a prompt leave.
Edited(keys) == Edits(keys).str

\* C31: the line handed to the parser on Enter is the typed characters
\* with each backspace (0x08 or 0x7F) deleting the most recent character
\* not yet deleted; a backspace on an empty buffer changes neither buffer
\* nor console; raw keys change nothing; after Enter the buffer is empty
\* and the prompt is printed again exactly once.
C31_LineEditing ==
    pc = "edit" =>
        /\ \A i \in 1..Len(edit.parsed) :
               edit.parsed[i].line = Edited(edit.parsed[i].keys)
        /\ cliPc = "read" =>
               /\ buffer = Edited(edit.typed)
               /\ edit.prompts = Len(edit.parsed) + 1
               /\ LET raw == cli_key(writer, port_out, buffer,
                                     [kind |-> "raw", ch |-> 0]) IN
                  /\ raw.writer = writer /\ raw.buffer = buffer
                  /\ raw.port_out = port_out /\ ~raw.entered
               /\ buffer = <<>> =>
                      \A ch \in {8, 127} :
                          LET bs == cli_key(writer, port_out, buffer,
                                            [kind |-> "unicode", ch |-> ch]) IN
                          /\ bs.writer = writer /\ bs.buffer = <<>>
                          /\ bs.port_out = port_out /\ ~bs.entered
               /\ edit.typed = <<>> =>
                      LET row == writer.cursor_position[1] IN
                      /\ writer.cursor_position[2] = 2
                      /\ writer.chars[row][0].ascii_character = 62
                      /\ writer.chars[row][1].ascii_character = 32
        /\ cliPc = "prompt" =>
               /\ buffer = <<>>
               /\ edit.typed = <<>>
               /\ edit.prompts = Len(edit.parsed)

\* x, backspace, delete on the empty buffer, then Enter: the empty line
\* was parsed and the shell is back at its prompt.
C31_Witness ==
    /\ pc = "edit" /\ cliPc = "read"
    /\ console_op.calls >= 3
    /\ edit.prompts = 2
    /\ \E i \in 1..Len(edit.parsed) :
           /\ edit.parsed[i].line = <<>>
           /\ Len(edit.parsed[i].keys) >= 2
           /\ edit.parsed[i].keys[Len(edit.parsed[i].keys)].ch \in {8, 127}

\* C40: each backspace on a non-empty buffer blanks the cell where the
\* removed character was echoed and leaves the cursor on that cell, also
\* on a line that has wrapped onto the next row.
C40_BackspaceBlanksEchoCell ==
    [][(/\ pc = "edit" /\ cliPc = "read"
        /\ console_op'.calls = console_op.calls + 1
        /\ console_op'.arg \in {<<8>>, <<127>>}
        /\ buffer # <<>>)
       => LET cell == edit.cells[Len(buffer)] IN
          /\ buffer' = SubSeq(buffer, 1, Len(buffer) - 1)
          /\ writer'.cursor_position = cell
          /\ writer'.chars[cell[1]][cell[2]].ascii_character = 32]_vars

\* C32: at boot the GDT is loaded, then the code segment is reloaded,
\* then the TSS is loaded, then the IDT, then the PICs are initialized, and
\* only then are interrupts enabled; no interrupt is delivered before the
\* IDT is loaded and the PICs are remapped.
C32_InitOrder ==
    /\ \E n \in 0..6 :
           cpu.steps = SubSeq(<<"gdt", "cs", "tss", "idt", "pics", "sti">>,
                              1, n)
    /\ (int_enabled \/ prt.saved) =>
           /\ cpu.gdt /\ cpu.cs /\ cpu.tss /\ cpu.idt /\ cpu.pics
           /\ Len(cpu.steps) = 6
    /\ (kbdPos > 0 \/ eoi > 0 \/ hung) => cpu.idt /\ cpu.pics

\* init has run through and the keyboard's first interrupt was delivered.
C32_Witness ==
    /\ Len(cpu.steps) = 6
    /\ cpu.steps[6] = "sti"
    /\ kbdPos = 1
    /\ eoi = 1

\* C33: the breakpoint handler prints its diagnostic and returns, and
\* the interrupted code goes on where it was; the double-fault and the
\* page-fault handler print their diagnostic and halt for ever: once one
\* of them is entered the main flow never moves again, no interrupt is
\* taken and no task is polled.
C33_ExceptionDisposition ==
    /\ [](cpu.exception # "none" =>
              /\ pc \in {"fault", "panic"}
              /\ ~int_enabled
              /\ cpu.diagnostics[Len(cpu.diagnostics)] = cpu.exception)
    /\ [][cpu.exception # "none" =>
              UNCHANGED <<pc, polls, execVars, cliVars, kbdPos, eoi>>]_vars
    /\ [][cpu'.returned # cpu.returned =>
              /\ cpu'.diagnostics = Append(cpu.diagnostics, "breakpoint")
              /\ cpu'.exception = cpu.exception
              /\ UNCHANGED <<pc, cpuVars, execVars, cliVars, histVars,
                             SCANCODE_QUEUE, WAKER, script, kbdPos, flood,
                             delivered, dropFull, dropUninit, warnFull,
                             warnUninit, eoi>>]_vars

\* The shell had been polled and a breakpoint had returned when a page
\* fault halted the kernel.
C33_Witness ==
    /\ cpu.exception = "page_fault"
    /\ pc = "fault"
    /\ cpu.returned = 1
    /\ polls[CLI_ID] > 0
    /\ cpu.diagnostics = <<"breakpoint", "page_fault">>


\* C34: memmove(dest, src, n) leaves dest[0..n) equal to the bytes that
\* src[0..n) held before the call, wherever the two ranges lie (dest below
\* src, dest above src, dest equal to src, overlapping or not), and returns
\* dest.
C34_Memmove ==
    mem.calls > 0 =>
        /\ \A i \in 0..(mem.num - 1) :
               mem.bytes[mem.dest + i] = mem.before[mem.src + i]
        /\ mem.ret = mem.dest

\* The second of two calls, its ranges overlapping with dest above src, on
\* bytes the first call has moved.
C34_Witness ==
    /\ mem.calls = 2
    /\ mem.src < mem.dest
    /\ mem.dest < mem.src + mem.num
    /\ mem.num >= 3
    /\ mem.bytes # mem.before
    /\ mem.ret = mem.dest

\* The entries of the ready queue that name the task id.
ReadyEntries(id) == {i \in DOMAIN task_queue : task_queue[i] = id}

\* C35: with the shell as the only spawned task, woken only through the
\* scancode stream's waker slot, the ready queue never holds more than one
\* entry for it, under every interleaving of keyboard interrupts with its
\* polls, and so a wake from the keyboard interrupt never finds the ready
\* queue full.
C35_OneReadyEntry ==
    /\ tasks \subseteq {CLI_ID}
    /\ Cardinality(ReadyEntries(CLI_ID)) <= 1
    /\ why # "wake"

\* C39: interrupts are enabled during boot while the scancode queue does not
\* exist yet (it is created when the shell is first polled); every keyboard
\* interrupt that arrives before that drops its byte with the "scancode
\* queue uninitialized" warning, wakes nothing, still sends end-of-interrupt,
\* and the byte is never delivered to the shell.
C39_EarlyKeysDropped ==
    /\ [](polls[CLI_ID] = 0 => ~SCANCODE_QUEUE.init)
    /\ [][(kbdPos' # kbdPos /\ ~SCANCODE_QUEUE.init) =>
            /\ dropUninit' = dropUninit \cup {kbdPos'}
            /\ warnUninit' = warnUninit + 1
            /\ eoi' = eoi + 1
            /\ UNCHANGED <<SCANCODE_QUEUE, WAKER, task_queue, delivered>>]_vars
    /\ [](\A i \in DOMAIN delivered : delivered[i] \notin dropUninit)

\* The bytes of a block alloc returned: size_align's size from its pointer.
BlockArea(b) == ListNode(b.ptr, size_align(b.layout).size)

\* C36: after init on a heap range and any allocs and matching deallocs,
\* every block alloc returned and that is still live lies inside the heap
\* range, is aligned to the alignment requested, and overlaps no other
\* live block and no region of the free list; a block just returned
\* overlaps no block that was live at the call.
C36_BlocksSafe ==
    /\ [](\A b \in live :
            /\ heap_area.start <= b.ptr
            /\ end_addr(BlockArea(b)) <= heap_area.start + heap_area.size
            /\ b.ptr % b.layout.align = 0
            /\ \A c \in live : c.ptr # b.ptr => ~Overlap(BlockArea(b), BlockArea(c))
            /\ \A i \in 1..Len(head) : ~Overlap(BlockArea(b), head[i]))
    /\ [][(ret'.op = "alloc" /\ ret'.ptr.some) =>
            /\ Cardinality(live') = Cardinality(live) + 1
            /\ \A b \in live : b.ptr # ret'.ptr.frame]_vars

\* Two blocks are live, one of them at the alignment 16 on a heap that
\* starts at an odd multiple of 8, above a region that a dealloc has put
\* on the free list.
C36_Witness ==
    /\ pc = "list"
    /\ heap_area.start = 24
    /\ Cardinality(live) >= 2
    /\ \E b \in live : b.layout.align = 16
    /\ \E i \in 1..Len(head) : \A b \in live : head[i].addr < b.ptr

\* C37: an alloc of any layout, followed at once by the dealloc of the
\* block it returned with the same layout, leaves the sum of the sizes of
\* the regions of the free list as it was before the alloc, also when the
\* alignment requested is larger than the alignment of a node.
C37_AllocDeallocConserves ==
    pc = "list" =>
        \A l \in Layouts :
            LET a == list_alloc(head, l) IN
            (a.ptr.some /\ ~a.panic) =>
                LET d == list_dealloc(a.list, a.ptr.frame, l) IN
                ~d.panic /\ TotalFree(d.list) = TotalFree(head)

\* The layouts of the callers, and one for the whole heap.
WholeHeap == [size |-> heap_area.size, align |-> NODE_ALIGN]

\* C38: once every block that was allocated has been deallocated, the
\* allocator can serve again every request it could serve right after
\* init, in particular one request for the size of the whole heap.
C38_RecoversFromChurn ==
    (pc = "list" /\ live = {}) =>
        \A l \in Layouts \cup {WholeHeap} :
            list_alloc(<<ListNode(heap_area.start, heap_area.size)>>, l).ptr.some
                => list_alloc(head, l).ptr.some

====
